---- MODULE Spec2Model ----
(***************************************************************************)
(* Plan storage and coordination engine of plan-mode.ts: the directory     *)
(* backed plan store, the per-plan advisory lock files, the plan tool's    *)
(* actions, the interactive /plan menu actions, the retention sweep and    *)
(* the per-process planning-mode / active-plan state.                      *)
(*                                                                         *)
(* Every session is one process.  An operation is split at its awaits:     *)
(* the steps of different sessions interleave on the shared store.         *)
(***************************************************************************)
EXTENDS Integers, Sequences, FiniteSets, TLC

\* ------------------------------------------------------------------ bounds
MaxSteps == 2
MaxTicks == 1

\* --------------------------------------------------------------- constants
\* Times are counted in seconds (TLC's integers are 32 bits wide, and thirty
\* days of milliseconds are not): every duration of the source is divided by
\* MsPerSecond.
MsPerSecond == 1000
LOCK_TTL_MS == (30 * 60 * 1000) \div MsPerSecond
DAY_MS == (24 * 60 * 60 * 1000) \div MsPerSecond
PLAN_MODE_TOOLS == "read,bash,grep,find,ls"
NORMAL_MODE_TOOLS == "read,bash,edit,write"
HostTools == "host"

Sessions == {"s1", "s2"}
\* the sessions that run with a UI (ctx.hasUI) where a specification fixes it
Interactive == {"s1"}
PlanIds == {"a1"}
\* the ids of a store that holds two plans
TwoPlanIds == {"a1", "b2"}
Statuses == {"draft", "active", "completed", "archived"}
Titles == {"T1"}
Undefined == "undefined"
Null == "null"

NoFile == [exists |-> FALSE]
NoLock == [locked |-> FALSE]
NoReq == [via |-> "none"]
NoNote == [customType |-> "none"]
NoCall == [toolName |-> "none"]

\* the elapses of time in the model: exactly the lock's time to live, and the
\* least time longer than it
TickMs == {LOCK_TTL_MS, LOCK_TTL_MS + 1}

VARIABLES
    files,                \* <id>.md   : PlanIds -> PlanRecord or NoFile
    locks,                \* <id>.lock : PlanIds -> LockInfo or NoLock
    clock,                \* Date.now()
    ticks,                \* how many times time has been let pass
    hasUI,                \* ctx.hasUI of each session
    pc,                   \* where each session's operation stands
    req,                  \* the request a session is serving
    attempt,              \* acquireLock's loop counter
    now,                  \* acquireLock's / garbageCollectPlans' Date.now()
    existing,             \* the record a critical section holds in memory
    result,               \* what the operation returns
    gcTask,               \* the sweep's per-entry task
    planningModeEnabled,  \* per process
    activePlanId,         \* per process
    activeTools,          \* per process: what pi.setActiveTools installed
    note,                 \* per process: what before_agent_start returned last
    toolCall              \* per process: the last tool_call event and its answer

vars == <<files, locks, clock, ticks, hasUI, pc, req, attempt, now, existing, result,
          gcTask, planningModeEnabled, activePlanId, activeTools, note, toolCall>>

storeVars == <<files, locks>>
procVars == <<planningModeEnabled, activePlanId, activeTools>>

\* ---------------------------------------------------------------- helpers
isPlanCompleted(status) == status \in {"completed", "archived"}

RECURSIVE MaxStepId(_)
MaxStepId(steps) ==
    IF steps = <<>> THEN 0
    ELSE LET m == MaxStepId(Tail(steps))
         IN  IF Head(steps).id > m THEN Head(steps).id ELSE m

\* the step texts a create request can supply: the first n of these
StepTexts == <<"t1", "t2", "t3", "t4", "t5">>

\* mutant of NewSteps: the ids are counted from 0
NewStepsFromZero(texts) ==
    [i \in 1..Len(texts) |-> [id |-> i - 1, text |-> texts[i], done |-> FALSE]]

\* (params.steps ?? []).map((text, i) => ({ id: i + 1, text, done: false }))
NewSteps(texts) ==
    [i \in 1..Len(texts) |-> [id |-> i, text |-> texts[i], done |-> FALSE]]

HasStep(steps, k) == \E i \in 1..Len(steps) : steps[i].id = k

\* existing.steps.find(s => s.id === step_id).done = true : the first match
FirstStep(steps, k) == CHOOSE i \in 1..Len(steps) :
    steps[i].id = k /\ \A j \in 1..(i - 1) : steps[j].id # k

\* mutant of MarkDone: every step is marked
MarkDoneAll(steps, k) == [i \in 1..Len(steps) |-> [steps[i] EXCEPT !.done = TRUE]]

MarkDone(steps, k) == [steps EXCEPT ![FirstStep(steps, k)].done = TRUE]

\* ------------------------------------------------------- the plan records
NewPlan(id, r, createdAt) ==
    [id |-> id,
     title |-> r.title,
     status |-> IF r.status = Undefined THEN "draft" ELSE r.status,
     created_at |-> createdAt,
     assigned_to_session |-> Undefined,
     steps |-> NewSteps(r.steps),
     body |-> IF r.body = Undefined THEN "" ELSE r.body]

\* what a critical section computes from the record it read:
\*   error # "" : fn returns {error}, nothing is written
\*   write      : the plan is written back
Fail(msg, e) == [error |-> msg, write |-> FALSE, plan |-> e]
Keep(e) == [error |-> "", write |-> FALSE, plan |-> e]
Put(e) == [error |-> "", write |-> TRUE, plan |-> e]

\* mutant of UpdateFn: a plan updated to a terminal status loses its assignment
UpdateFnReleases(r, e) ==
    Put([e EXCEPT !.title = IF r.title # Undefined THEN r.title ELSE @,
                  !.status = IF r.status # Undefined THEN r.status ELSE @,
                  !.body = IF r.body # Undefined THEN r.body ELSE @,
                  !.assigned_to_session =
                      IF r.status # Undefined /\ isPlanCompleted(r.status)
                      THEN Undefined ELSE @])

UpdateFn(r, e) ==
    Put([e EXCEPT !.title = IF r.title # Undefined THEN r.title ELSE @,
                  !.status = IF r.status # Undefined THEN r.status ELSE @,
                  !.body = IF r.body # Undefined THEN r.body ELSE @])

\* mutant of AddStepFn: the new step takes the id of the last one
AddStepFnSameId(r, e) ==
    Put([e EXCEPT !.steps = Append(@, [id |-> MaxStepId(e.steps),
                                        text |-> r.step_text,
                                        done |-> FALSE])])

AddStepFn(r, e) ==
    Put([e EXCEPT !.steps = Append(@, [id |-> MaxStepId(e.steps) + 1,
                                        text |-> r.step_text,
                                        done |-> FALSE])])

CompleteStepFn(r, e) ==
    IF ~HasStep(e.steps, r.step_id) THEN Fail("step not found", e)
    ELSE Put([e EXCEPT !.steps = MarkDone(@, r.step_id)])

\* mutant of ClaimFn: neither the status nor the assignment is looked at
ClaimFnUnchecked(r, e, sessionId) == Put([e EXCEPT !.assigned_to_session = sessionId])

ClaimFn(r, e, sessionId) ==
    IF isPlanCompleted(e.status) THEN Fail("terminal", e)
    ELSE IF e.assigned_to_session # Undefined
            /\ e.assigned_to_session # sessionId /\ ~r.force
         THEN Fail("assigned", e)
         ELSE Put([e EXCEPT !.assigned_to_session = sessionId])

ReleaseFn(r, e, sessionId) ==
    IF e.assigned_to_session = Undefined THEN Keep(e)
    ELSE IF e.assigned_to_session # sessionId /\ ~r.force
         THEN Fail("assigned", e)
         ELSE Put([e EXCEPT !.assigned_to_session = Undefined])

\* mutant of ExecuteFn: an unassigned plan is not claimed for the caller
ExecuteFnNoClaim(r, e, sessionId) ==
    IF isPlanCompleted(e.status) THEN Fail("terminal", e)
    ELSE Put([e EXCEPT !.status = "active"])

ExecuteFn(r, e, sessionId) ==
    IF isPlanCompleted(e.status) THEN Fail("terminal", e)
    ELSE IF e.assigned_to_session = Undefined
         THEN Put([e EXCEPT !.assigned_to_session = sessionId,
                            !.status = "active"])
         ELSE IF e.assigned_to_session # sessionId /\ ~r.force
              THEN Fail("assigned", e)
              ELSE Put([e EXCEPT !.status = "active"])

\* the delete action reads the record, then unlinks the file
DeleteFn(r, e) == Put(e)

MenuExecuteFn(e, sessionId) ==
    Put([e EXCEPT !.assigned_to_session = sessionId, !.status = "active"])

MenuCompleteFn(e) ==
    Put([e EXCEPT !.status = "completed", !.assigned_to_session = Undefined])

\* mutant of MenuReopenFn: a reopened plan is stamped as created at the epoch
MenuReopenFnRestamps(e) == Put([e EXCEPT !.status = "draft", !.created_at = 0])

MenuReopenFn(e) == Put([e EXCEPT !.status = "draft"])

MenuReleaseFn(e) == Put([e EXCEPT !.assigned_to_session = Undefined])

\* the body of the fn handed to withPlanLock, after its readPlanFile
CriticalSection(r, e, sessionId) ==
    IF r.via = "tool" THEN
        CASE r.action = "update" -> UpdateFn(r, e)
          [] r.action = "add-step" -> AddStepFn(r, e)
          [] r.action = "complete-step" -> CompleteStepFn(r, e)
          [] r.action = "claim" -> ClaimFn(r, e, sessionId)
          [] r.action = "release" -> ReleaseFn(r, e, sessionId)
          [] r.action = "execute" -> ExecuteFn(r, e, sessionId)
          [] r.action = "delete" -> DeleteFn(r, e)
    ELSE
        CASE r.action = "execute" -> MenuExecuteFn(e, sessionId)
          [] r.action = "complete" -> MenuCompleteFn(e)
          [] r.action = "reopen" -> MenuReopenFn(e)
          [] r.action = "release" -> MenuReleaseFn(e)

\* fn's that start with readPlanFile; the others (create, the menu's delete)
\* go straight to their write / unlink
ReadsFirst(r) ==
    ~(r.via = "tool" /\ r.action = "create") /\ ~(r.via = "menu" /\ r.action = "delete")

Unlinks(r) == r.action = "delete"

\* ------------------------------------------------------------ the requests
\* params.id as the caller writes it: a sequence of tokens, which are blanks,
\* "#", the display prefix in either case, hex ids in either case and a word
\* that is not hex; the empty sequence is an id that is absent or ""
Blank == "sp"
PLAN_ID_PREFIX == "PLAN-"
UpperHex == "A1"
HexTokens == TwoPlanIds \cup {UpperHex}
toLowerCase(tok) ==
    CASE tok = UpperHex -> "a1"
      [] tok = PLAN_ID_PREFIX -> "plan-"
      [] OTHER -> tok
toUpperCase(tok) ==
    CASE tok = "a1" -> UpperHex
      [] tok = "plan-" -> PLAN_ID_PREFIX
      [] OTHER -> tok

RECURSIVE trimStart(_)
trimStart(raw) ==
    IF raw # <<>> /\ Head(raw) = Blank THEN trimStart(Tail(raw)) ELSE raw

RECURSIVE trimEnd(_)
trimEnd(raw) ==
    IF raw # <<>> /\ raw[Len(raw)] = Blank
    THEN trimEnd(SubSeq(raw, 1, Len(raw) - 1)) ELSE raw

normalizePlanId(raw) ==
    LET trimmed == trimEnd(trimStart(raw))
        noHash == IF trimmed # <<>> /\ Head(trimmed) = "#" THEN Tail(trimmed) ELSE trimmed
    IN  IF noHash # <<>> /\ toUpperCase(Head(noHash)) = PLAN_ID_PREFIX
        THEN Tail(noHash) ELSE noHash

\* PLAN_ID_PATTERN.test(normalized): the whole string is one 8-digit hex word
PLAN_ID_PATTERN(normalized) == Len(normalized) = 1 /\ normalized[1] \in HexTokens

validatePlanId(raw) ==
    LET normalized == normalizePlanId(raw)
    IN  IF normalized = <<>> \/ ~PLAN_ID_PATTERN(normalized)
        THEN [error |-> "invalid id", id |-> Null]
        ELSE [error |-> "", id |-> toLowerCase(normalized[1])]

\* mutant of existsSync: every id is taken to have a record
existsSyncAlways(fs, id) == TRUE

existsSync(fs, id) == fs[id] # NoFile

\* a request: id is the plan it is about once validated, param what the
\* caller wrote for it
Request(via, action, id) ==
    [via |-> via, action |-> action, id |-> id, param |-> <<id>>, title |-> Undefined,
     status |-> Undefined, body |-> Undefined, steps |-> <<>>,
     step_text |-> Undefined, step_id |-> 0, has_step_id |-> FALSE, force |-> FALSE]

CreateRequests ==
    {[Request("tool", "create", Undefined) EXCEPT
          !.title = t, !.status = st, !.steps = SubSeq(StepTexts, 1, n)] :
       t \in Titles \cup {""}, st \in {Undefined, "completed"}, n \in 0..MaxSteps}

UpdateRequests ==
    {[Request("tool", "update", id) EXCEPT !.status = st, !.title = t] :
       id \in PlanIds, st \in Statuses \cup {Undefined}, t \in {Undefined} \cup Titles}

StepRequests ==
    {[Request("tool", "add-step", id) EXCEPT !.step_text = "x"] : id \in PlanIds}
    \cup {[Request("tool", "complete-step", id) EXCEPT !.step_id = k, !.has_step_id = TRUE] :
            id \in PlanIds, k \in 1..MaxSteps}

AssignRequests ==
    {[Request("tool", a, id) EXCEPT !.force = f] :
       a \in {"claim", "release", "execute"}, id \in PlanIds, f \in BOOLEAN}

DeleteRequests == {Request("tool", "delete", id) : id \in PlanIds}

GetRequests == {Request("tool", "get", id) : id \in PlanIds}

ToolRequests ==
    CreateRequests \cup UpdateRequests \cup StepRequests \cup AssignRequests
    \cup DeleteRequests

MenuActions == {"execute", "complete", "reopen", "release", "delete"}

\* PlanActionMenuComponent: the options it offers for the record it was opened on
MenuOffers(plan, action) ==
    CASE action = "reopen" -> isPlanCompleted(plan.status)
      [] action = "complete" -> ~isPlanCompleted(plan.status)
      [] action = "release" -> plan.assigned_to_session # Undefined
      [] OTHER -> TRUE

\* ------------------------------------------------------- the lock manager
LockInfo(id, session, t) ==
    [id |-> id, session |-> session, created_at |-> t, mtimeMs |-> t, granted |-> TRUE]

\* const lockAge = stats ? now - stats.mtimeMs : LOCK_TTL_MS + 1
lockAge(n, lock) == IF lock # NoLock THEN n - lock.mtimeMs ELSE LOCK_TTL_MS + 1

\* mutants of ConflictPath: the age test off by one, and no test of ctx.hasUI
ConflictPathStrict(age, ui) ==
    IF age < LOCK_TTL_MS THEN "locked"
    ELSE IF ~ui THEN "stale" ELSE "confirm"

ConflictPathAlwaysPrompts(age, ui) ==
    IF age <= LOCK_TTL_MS THEN "locked" ELSE "confirm"

\* the conflict path of acquireLock, after its stat
ConflictPath(age, ui) ==
    IF age <= LOCK_TTL_MS THEN "locked"
    ELSE IF ~ui THEN "stale" ELSE "confirm"

\* mutant of UnlinkLock: the unlink leaves the file where it is
UnlinkLockKeeps(l, id) == l

\* fs.unlink(lockPath), errors ignored: the release callback and the steal
UnlinkLock(l, id) == [l EXCEPT ![id] = NoLock]

\* mutant of StealAllowed: the answer to the prompt is not looked at
StealWhateverTheAnswer(ok) == TRUE

\* const ok = await ctx.ui.confirm(...); if (!ok) return {error}
StealAllowed(ok) == ok

\* mutant of withPlanLockFinally: the lock is released on the way out of a
\* fn that returned, not of one that threw
withPlanLockNoFinally(l, id, res) == IF res = "threw" THEN l ELSE UnlinkLock(l, id)

\* withPlanLock: try { return await fn() } finally { await lock() }
\* res is how fn ended
withPlanLockFinally(l, id, res) == UnlinkLock(l, id)

\* acquireLock's loop: for (let attempt = 0; attempt < 2; attempt++)
MaxAttempts == 2

\* mutant of LoopGoesOn: the loop has no bound
LoopGoesOnAlways(a) == TRUE

\* the loop's test before a new round: attempt < 2
LoopGoesOn(a) == a < MaxAttempts

\* ------------------------------------------- effects after withPlanLock
\* Does the code that follows `await withPlanLock(...)` run?  The tool returns
\* early on an {error}; the menu's applyPlanAction never looks at the result.
EffectsRun(r, res) ==
    IF r.via = "tool" THEN res = "ok" ELSE res \notin {"threw", "declined"}

SetsActivePlan(r) == r.action = "execute"

\* mutant of ClearsActivePlan: the tool's delete leaves the pointer alone
ClearsActivePlanNotOnDelete(r) ==
    \/ r.via = "tool" /\ r.action = "release"
    \/ r.via = "menu" /\ r.action \in {"complete", "release", "delete"}

ClearsActivePlan(r) ==
    \/ r.via = "tool" /\ r.action \in {"release", "delete"}
    \/ r.via = "menu" /\ r.action \in {"complete", "release", "delete"}

ActiveAfter(r, res, cur) ==
    IF ~EffectsRun(r, res) THEN cur
    ELSE IF SetsActivePlan(r) THEN r.id
    ELSE IF ClearsActivePlan(r) /\ cur = r.id THEN Null
    ELSE cur

ModeAfter(r, res, cur) ==
    IF EffectsRun(r, res) /\ SetsActivePlan(r) THEN FALSE ELSE cur

\* mutant of ToolsAfter: an execute leaves the tool set as it is
ToolsAfterKeeps(r, res, cur) == cur

ToolsAfter(r, res, cur) ==
    IF EffectsRun(r, res) /\ SetsActivePlan(r) THEN NORMAL_MODE_TOOLS ELSE cur

\* the operation of session s ends with res
Finish(s, res) ==
    /\ pc' = [pc EXCEPT ![s] = "done"]
    /\ result' = [result EXCEPT ![s] = res]
    /\ activePlanId' = [activePlanId EXCEPT ![s] = ActiveAfter(req[s], res, @)]
    /\ planningModeEnabled' = [planningModeEnabled EXCEPT ![s] = ModeAfter(req[s], res, @)]
    /\ activeTools' = [activeTools EXCEPT ![s] = ToolsAfter(req[s], res, @)]

\* --------------------------------------------------------- generatePlanId
IdAttempts == 10

\* the ids (or "throw") generatePlanId can end with: each attempt draws an id
\* at random and returns it when no record has it
RECURSIVE generatePlanId(_, _)
generatePlanId(n, fs) ==
    IF n = IdAttempts THEN {"throw"}
    ELSE UNION {IF fs[id] = NoFile THEN {id} ELSE generatePlanId(n + 1, fs) :
                  id \in PlanIds}

\* -------------------------------------------------------------------- Init
\* an empty store, and no process started yet
InitOff ==
    /\ files = [id \in PlanIds |-> NoFile]
    /\ locks = [id \in PlanIds |-> NoLock]
    /\ clock = 0
    /\ ticks = 0
    /\ hasUI \in [Sessions -> BOOLEAN]
    /\ pc = [s \in Sessions |-> "off"]
    /\ req = [s \in Sessions |-> NoReq]
    /\ attempt = [s \in Sessions |-> 0]
    /\ now = [s \in Sessions |-> 0]
    /\ existing = [s \in Sessions |-> NoFile]
    /\ result = [s \in Sessions |-> ""]
    /\ gcTask = [s \in Sessions |-> [id \in PlanIds |-> "none"]]
    /\ planningModeEnabled = [s \in Sessions |-> FALSE]
    /\ activePlanId = [s \in Sessions |-> Null]
    /\ activeTools = [s \in Sessions |-> HostTools]
    /\ note = [s \in Sessions |-> NoNote]
    /\ toolCall = [s \in Sessions |-> NoCall]

\* ------------------------------------------------------------------- time
Tick(d) ==
    /\ ticks < MaxTicks
    /\ ticks' = ticks + 1
    /\ clock' = clock + d
    /\ UNCHANGED <<files, locks, hasUI, pc, req, attempt, now, existing, result,
                   gcTask, planningModeEnabled, activePlanId, activeTools,
                   note, toolCall>>

\* ------------------------------------------ session_start and the sweep
GcSettings == {[gc |-> g, gcDays |-> d] : g \in BOOLEAN, d \in {0, 30}}

\* session_start: readPlanSettings, then garbageCollectPlans up to its readdir
SessionStart(s, settings) ==
    /\ pc[s] = "off"
    /\ pc' = [pc EXCEPT ![s] = "gc"]
    /\ req' = [req EXCEPT ![s] =
            [via |-> "gc", gc |-> settings.gc, gcDays |-> settings.gcDays]]
    /\ now' = [now EXCEPT ![s] = clock]
    /\ gcTask' = [gcTask EXCEPT ![s] =
            [id \in PlanIds |->
                IF settings.gc /\ files[id] # NoFile THEN "read" ELSE "none"]]
    /\ UNCHANGED <<files, locks, clock, ticks, hasUI, attempt, existing, result,
                   planningModeEnabled, activePlanId, activeTools, note, toolCall>>

\* created_at as the record's text has it: the time of an ISO-8601 timestamp
\* (what toISOString wrote), or one of two texts that are no timestamp
NoDate == -1      \* "" : the field is absent or empty
BadDate == -2     \* text that Date.parse does not read
NaN == -3

\* Date.parse(parsed.created_at)
DateParse(text) == IF text \in {NoDate, BadDate} THEN NaN ELSE text

\* Number.isFinite(createdAt)
isFinite(n) == n # NaN

\* mutant of GcExpired: a record created exactly at the cutoff is taken too
GcExpiredInclusive(plan, nowMs, gcDays) ==
    /\ isPlanCompleted(plan.status)
    /\ isFinite(DateParse(plan.created_at))
    /\ DateParse(plan.created_at) <= nowMs - gcDays * DAY_MS

\* what one entry's task decides after its readFile
GcExpired(plan, nowMs, gcDays) ==
    /\ isPlanCompleted(plan.status)
    /\ isFinite(DateParse(plan.created_at))
    /\ DateParse(plan.created_at) < nowMs - gcDays * DAY_MS

GcRead(s, id) ==
    /\ pc[s] = "gc"
    /\ gcTask[s][id] = "read"
    /\ gcTask' = [gcTask EXCEPT ![s][id] =
            IF files[id] # NoFile /\ GcExpired(files[id], now[s], req[s].gcDays)
            THEN "unlink" ELSE "none"]
    /\ UNCHANGED <<files, locks, clock, ticks, hasUI, pc, req, attempt, now, existing,
                   result, planningModeEnabled, activePlanId, activeTools,
                   note, toolCall>>

\* await fs.unlink(filePath), errors ignored
GcUnlink(s, id) ==
    /\ pc[s] = "gc"
    /\ gcTask[s][id] = "unlink"
    /\ files' = [files EXCEPT ![id] = NoFile]
    /\ gcTask' = [gcTask EXCEPT ![s][id] = "none"]
    /\ UNCHANGED <<locks, clock, ticks, hasUI, pc, req, attempt, now, existing, result,
                   planningModeEnabled, activePlanId, activeTools, note, toolCall>>

\* the rest of session_start, once Promise.all has settled
SessionReady(s, planFlag) ==
    /\ pc[s] = "gc"
    /\ \A id \in PlanIds : gcTask[s][id] = "none"
    /\ pc' = [pc EXCEPT ![s] = "idle"]
    /\ req' = [req EXCEPT ![s] = NoReq]
    /\ now' = [now EXCEPT ![s] = 0]
    /\ planningModeEnabled' = [planningModeEnabled EXCEPT ![s] = IF planFlag THEN TRUE ELSE @]
    /\ activeTools' = [activeTools EXCEPT ![s] = IF planFlag THEN PLAN_MODE_TOOLS ELSE @]
    /\ UNCHANGED <<files, locks, clock, ticks, hasUI, attempt, existing, result, gcTask,
                   activePlanId, note, toolCall>>

\* the process ends; its planning mode and active plan go with it
Quit(s) ==
    /\ pc[s] = "idle"
    /\ pc' = [pc EXCEPT ![s] = "off"]
    /\ planningModeEnabled' = [planningModeEnabled EXCEPT ![s] = FALSE]
    /\ activePlanId' = [activePlanId EXCEPT ![s] = Null]
    /\ activeTools' = [activeTools EXCEPT ![s] = HostTools]
    /\ UNCHANGED <<files, locks, clock, ticks, hasUI, req, attempt, now, existing, result,
                   gcTask, note, toolCall>>

\* ---------------------------------------------------- togglePlanningMode
togglePlanningMode(s) ==
    /\ pc[s] = "idle"
    /\ planningModeEnabled' = [planningModeEnabled EXCEPT ![s] = ~@]
    /\ activeTools' = [activeTools EXCEPT ![s] =
            IF ~planningModeEnabled[s] THEN PLAN_MODE_TOOLS ELSE NORMAL_MODE_TOOLS]
    /\ UNCHANGED <<files, locks, clock, ticks, hasUI, pc, req, attempt, now, existing,
                   result, gcTask, activePlanId, note, toolCall>>

\* the /plan command with the argument on or off
PlanCommand(s, arg) ==
    /\ pc[s] = "idle"
    /\ IF planningModeEnabled[s] # (arg = "on")
       THEN togglePlanningMode(s)
       ELSE UNCHANGED vars

\* ---------------------------------------------------------------- tool_call
\* A command is the sequence of its words, blanks included.  Of the patterns
\* the model has the shapes: a safe pattern matches a word at the start of the
\* command, after blanks or none (^\s*cat\b); a destructive pattern matches a
\* word anywhere in it (\brm\b), the redirections among them.
SafeWords == {"cat", "ls", "echo"}
DestructiveWords == {"rm", "mv", ">", ">>"}

SAFE_COMMANDS(command) ==
    LET rest == trimStart(command)
    IN  rest # <<>> /\ Head(rest) \in SafeWords

DESTRUCTIVE_PATTERNS(command) ==
    \E i \in 1..Len(command) : command[i] \in DestructiveWords

\* mutant of isSafeCommand: a safe prefix is enough
isSafeCommandByPrefix(command) ==
    IF SAFE_COMMANDS(command) THEN TRUE
    ELSE IF DESTRUCTIVE_PATTERNS(command) THEN FALSE
    ELSE TRUE

isSafeCommand(command) ==
    IF SAFE_COMMANDS(command) /\ ~DESTRUCTIVE_PATTERNS(command) THEN TRUE
    ELSE IF DESTRUCTIVE_PATTERNS(command) THEN FALSE
    ELSE TRUE

\* the commands of the tool_call events
Commands ==
    {<<"ls">>, <<Blank, "cat", "f">>, <<"rm", "f">>, <<"make">>,
     <<"cat", "f", ">", "g">>, <<"echo", "x", ">>", "g">>, <<"echo", "rm">>,
     <<"make", "&&", "mv", "f", "g">>}

\* the tool_call events: bash with a command, and a tool that has none
ToolCalls ==
    {[toolName |-> "bash", command |-> c] : c \in Commands}
    \cup {[toolName |-> "edit", command |-> <<>>]}

\* the handler of tool_call: block is whether it answered {block: true}
ToolCallHandler(s, toolName, command) ==
    /\ pc[s] = "idle"
    /\ toolCall' = [toolCall EXCEPT ![s] =
            [toolName |-> toolName, command |-> command,
             block |-> IF ~planningModeEnabled[s] THEN FALSE
                       ELSE IF toolName # "bash" THEN FALSE
                       ELSE ~isSafeCommand(command)]]
    /\ UNCHANGED <<files, locks, clock, ticks, hasUI, pc, req, attempt, now, existing,
                   result, gcTask, planningModeEnabled, activePlanId, activeTools,
                   note>>

\* ------------------------------------------------------ before_agent_start
NotDone(step) == ~step.done

\* remaining.map((s) => `${s.id}. ${s.text}`)
StepLines(steps) == [i \in 1..Len(steps) |-> <<steps[i].id, steps[i].text>>]

PlanningNote == [customType |-> "plan-mode-context"]

\* mutant of ExecutionNote: the steps that are done are listed too
ExecutionNoteAllSteps(id, plan) ==
    [customType |-> "plan-execution-context", id |-> id,
     complete |-> FALSE, lines |-> StepLines(plan.steps)]

\* the message built from the record that was read for the active plan
ExecutionNote(id, plan) ==
    LET remaining == SelectSeq(plan.steps, NotDone)
    IN  [customType |-> "plan-execution-context", id |-> id,
         complete |-> remaining = <<>>, lines |-> StepLines(remaining)]

\* the handler of before_agent_start: what it returns is the note of the turn
BeforeAgentStart(s) ==
    /\ pc[s] = "idle"
    /\ note' = [note EXCEPT ![s] =
            IF planningModeEnabled[s] THEN PlanningNote
            ELSE IF activePlanId[s] # Null
                 THEN IF files[activePlanId[s]] = NoFile
                      THEN NoNote
                      ELSE ExecutionNote(activePlanId[s], files[activePlanId[s]])
                 ELSE NoNote]
    /\ UNCHANGED <<files, locks, clock, ticks, hasUI, pc, req, attempt, now, existing,
                   result, gcTask, planningModeEnabled, activePlanId, activeTools,
                   toolCall>>

\* ------------------------------------------------- the start of an action
\* withPlanLock -> acquireLock: const now = Date.now(), then the first fs.open
BeginAcquire(s) ==
    /\ pc' = [pc EXCEPT ![s] = "open"]
    /\ attempt' = [attempt EXCEPT ![s] = 0]
    /\ now' = [now EXCEPT ![s] = clock]

\* the action returns before it reaches withPlanLock
EarlyReturn(s, r, res) ==
    /\ pc' = [pc EXCEPT ![s] = "done"]
    /\ req' = [req EXCEPT ![s] = r]
    /\ result' = [result EXCEPT ![s] = res]
    /\ UNCHANGED <<attempt, now, existing>>

\* the plan tool's execute(), up to its call of withPlanLock
StartTool(s, r) ==
    /\ pc[s] = "idle"
    /\ IF r.action = "create"
       THEN IF r.title \in {Undefined, ""}
            THEN EarlyReturn(s, r, "title required")
            ELSE \E g \in generatePlanId(0, files) :
                   IF g = "throw"
                   THEN EarlyReturn(s, r, "threw")
                   ELSE /\ req' = [req EXCEPT ![s] = [r EXCEPT !.id = g]]
                        /\ existing' = [existing EXCEPT ![s] = NewPlan(g, r, clock)]
                        /\ BeginAcquire(s)
                        /\ UNCHANGED result
       ELSE LET validated == validatePlanId(r.param)
            IN  IF r.param = <<>>
                THEN EarlyReturn(s, r, "id required")
                ELSE IF r.action = "add-step" /\ r.step_text \in {Undefined, ""}
                THEN EarlyReturn(s, r, "step_text required")
                ELSE IF r.action = "complete-step" /\ ~r.has_step_id
                THEN EarlyReturn(s, r, "step_id required")
                ELSE IF validated.error # ""
                THEN EarlyReturn(s, r, validated.error)
                ELSE IF ~existsSync(files, validated.id)
                THEN EarlyReturn(s, r, "not found")
                ELSE IF r.action = "get"
                THEN /\ pc' = [pc EXCEPT ![s] = "get"]
                     /\ req' = [req EXCEPT ![s] = [r EXCEPT !.id = validated.id]]
                     /\ UNCHANGED <<attempt, now, existing, result>>
                ELSE /\ IF r.action = "add-step" /\ files[validated.id] # NoFile
                        THEN Len(files[validated.id].steps) < MaxSteps ELSE TRUE
                     /\ req' = [req EXCEPT ![s] = [r EXCEPT !.id = validated.id]]
                     /\ BeginAcquire(s)
                     /\ UNCHANGED <<existing, result>>
    /\ UNCHANGED <<files, locks, clock, ticks, hasUI, gcTask, planningModeEnabled,
                   activePlanId, activeTools, note, toolCall>>

\* the get action's await readPlanFile, which takes no lock
GetRead(s) ==
    /\ pc[s] = "get"
    /\ IF files[req[s].id] = NoFile
       THEN /\ result' = [result EXCEPT ![s] = "threw"]
            /\ UNCHANGED existing
       ELSE /\ result' = [result EXCEPT ![s] = "ok"]
            /\ existing' = [existing EXCEPT ![s] = files[req[s].id]]
    /\ pc' = [pc EXCEPT ![s] = "done"]
    /\ UNCHANGED <<files, locks, clock, ticks, hasUI, req, attempt, now, gcTask,
                   planningModeEnabled, activePlanId, activeTools, note, toolCall>>

\* applyPlanAction on the record the menu was opened on, up to withPlanLock;
\* confirmed is the answer to the delete prompt
StartMenu(s, action, id, confirmed) ==
    /\ pc[s] = "idle"
    /\ hasUI[s]
    /\ files[id] # NoFile
    /\ MenuOffers(files[id], action)
    /\ action # "delete" => confirmed
    /\ IF ~confirmed
       THEN EarlyReturn(s, Request("menu", action, id), "declined")
       ELSE /\ req' = [req EXCEPT ![s] = Request("menu", action, id)]
            /\ BeginAcquire(s)
            /\ UNCHANGED <<existing, result>>
    /\ UNCHANGED <<files, locks, clock, ticks, hasUI, gcTask, planningModeEnabled,
                   activePlanId, activeTools, note, toolCall>>

\* ------------------------------------------------------------ acquireLock
\* fs.open(lockPath, "wx"), and on success the lock's contents and the return
AcquireOpen(s) ==
    /\ pc[s] = "open"
    /\ IF locks[req[s].id] = NoLock
       THEN /\ locks' = [locks EXCEPT ![req[s].id] = LockInfo(req[s].id, s, clock)]
            /\ pc' = [pc EXCEPT ![s] = IF ReadsFirst(req[s]) THEN "read" ELSE "write"]
       ELSE /\ pc' = [pc EXCEPT ![s] = "stat"]
            /\ UNCHANGED locks
    /\ UNCHANGED <<files, clock, ticks, hasUI, req, attempt, now, existing, result,
                   gcTask, planningModeEnabled, activePlanId, activeTools,
                   note, toolCall>>

\* fs.open succeeded and handle.writeFile then failed: the catch returns
\* "Failed to acquire lock", and the file open created stays
AcquireWriteFail(s) ==
    /\ pc[s] = "open"
    /\ locks[req[s].id] = NoLock
    /\ locks' = [locks EXCEPT ![req[s].id] =
            [LockInfo(req[s].id, s, clock) EXCEPT !.granted = FALSE]]
    /\ Finish(s, "lock failed")
    /\ UNCHANGED <<files, clock, ticks, hasUI, req, attempt, now, existing, gcTask,
                   note, toolCall>>

\* EEXIST: fs.stat, then the age test and what follows it
AcquireStat(s) ==
    /\ pc[s] = "stat"
    /\ LET path == ConflictPath(lockAge(now[s], locks[req[s].id]), hasUI[s])
       IN  IF path = "confirm"
           THEN /\ pc' = [pc EXCEPT ![s] = "confirm"]
                /\ UNCHANGED <<result, planningModeEnabled, activePlanId, activeTools>>
           ELSE Finish(s, path)
    /\ UNCHANGED <<files, locks, clock, ticks, hasUI, req, attempt, now, existing, gcTask,
                   note, toolCall>>

\* the user answers ctx.ui.confirm("Plan locked", ...)
UserAnswers(s, ok) ==
    /\ pc[s] = "confirm"
    /\ pc' = [pc EXCEPT ![s] = IF ok THEN "confirmed" ELSE "refused"]
    /\ UNCHANGED <<files, locks, clock, ticks, hasUI, req, attempt, now, existing,
                   result, gcTask, planningModeEnabled, activePlanId, activeTools,
                   note, toolCall>>

\* if (!ok) return {error}; otherwise the lock file is unlinked and the loop
\* goes round
AcquireSteal(s) ==
    /\ pc[s] \in {"confirmed", "refused"}
    /\ IF ~StealAllowed(pc[s] = "confirmed")
       THEN /\ Finish(s, "remains")
            /\ UNCHANGED <<locks, attempt>>
       ELSE /\ locks' = UnlinkLock(locks, req[s].id)
            /\ attempt' = [attempt EXCEPT ![s] = @ + 1]
            /\ IF LoopGoesOn(attempt[s] + 1)
               THEN /\ pc' = [pc EXCEPT ![s] = "open"]
                    /\ UNCHANGED <<result, planningModeEnabled, activePlanId, activeTools>>
               ELSE Finish(s, "lock failed")
    /\ UNCHANGED <<files, clock, ticks, hasUI, req, now, existing, gcTask, note, toolCall>>

\* ------------------------------------------------- the critical section
\* readPlanFile and the synchronous code up to the next await
FnRead(s) ==
    /\ pc[s] = "read"
    /\ IF req[s].action = "add-step" /\ files[req[s].id] # NoFile
       THEN Len(files[req[s].id].steps) < MaxSteps ELSE TRUE
    /\ IF files[req[s].id] = NoFile
       THEN /\ result' = [result EXCEPT ![s] = "threw"]
            /\ pc' = [pc EXCEPT ![s] = "release"]
            /\ UNCHANGED existing
       ELSE LET out == CriticalSection(req[s], files[req[s].id], s)
            IN  /\ existing' = [existing EXCEPT ![s] = out.plan]
                /\ IF out.write
                   THEN /\ pc' = [pc EXCEPT ![s] = "write"]
                        /\ UNCHANGED result
                   ELSE /\ pc' = [pc EXCEPT ![s] = "release"]
                        /\ result' = [result EXCEPT ![s] =
                                IF out.error # "" THEN out.error ELSE "ok"]
    /\ UNCHANGED <<files, locks, clock, ticks, hasUI, req, attempt, now, gcTask,
                   planningModeEnabled, activePlanId, activeTools, note, toolCall>>

\* writePlanFile, or fs.unlink(filePath) for the two deletes
FnWrite(s) ==
    /\ pc[s] = "write"
    /\ IF Unlinks(req[s])
       THEN IF files[req[s].id] = NoFile
            THEN /\ result' = [result EXCEPT ![s] = "threw"]
                 /\ UNCHANGED files
            ELSE /\ files' = [files EXCEPT ![req[s].id] = NoFile]
                 /\ result' = [result EXCEPT ![s] = "ok"]
       ELSE /\ files' = [files EXCEPT ![req[s].id] = existing[s]]
            /\ result' = [result EXCEPT ![s] = "ok"]
    /\ pc' = [pc EXCEPT ![s] = "release"]
    /\ UNCHANGED <<locks, clock, ticks, hasUI, req, attempt, now, existing, gcTask,
                   planningModeEnabled, activePlanId, activeTools, note, toolCall>>

\* withPlanLock's finally: await lock(); then the code after withPlanLock
Release(s) ==
    /\ pc[s] = "release"
    /\ locks' = withPlanLockFinally(locks, req[s].id, result[s])
    /\ Finish(s, result[s])
    /\ UNCHANGED <<files, clock, ticks, hasUI, req, attempt, now, existing, gcTask,
                   note, toolCall>>

\* the operation has returned; the session is ready for the next one
Return(s) ==
    /\ pc[s] = "done"
    /\ pc' = [pc EXCEPT ![s] = "idle"]
    /\ req' = [req EXCEPT ![s] = NoReq]
    /\ result' = [result EXCEPT ![s] = ""]
    /\ existing' = [existing EXCEPT ![s] = NoFile]
    /\ attempt' = [attempt EXCEPT ![s] = 0]
    /\ now' = [now EXCEPT ![s] = 0]
    /\ UNCHANGED <<files, locks, clock, ticks, hasUI, gcTask, planningModeEnabled,
                   activePlanId, activeTools, note, toolCall>>

\* ------------------------------------------------------------------- Next
\* the steps of an operation between its start and its return
Operate(s) ==
    \/ AcquireOpen(s)
    \/ AcquireStat(s)
    \/ \E ok \in BOOLEAN : UserAnswers(s, ok)
    \/ AcquireSteal(s)
    \/ FnRead(s)
    \/ FnWrite(s)
    \/ Release(s)
    \/ Return(s)

\* The lock manager under contention: every session has started (an empty
\* store leaves session_start's sweep nothing to do), and the requests are
\* one of each way a critical section can end: a write, an {error}, an unlink,
\* a throw (the record was deleted meanwhile), and the menu's actions, which
\* ignore what withPlanLock returns.
Init ==
    /\ files = [id \in PlanIds |-> NoFile]
    /\ locks = [id \in PlanIds |-> NoLock]
    /\ clock = 0
    /\ ticks = 0
    /\ hasUI = [s \in Sessions |-> s \in Interactive]
    /\ pc = [s \in Sessions |-> "idle"]
    /\ req = [s \in Sessions |-> NoReq]
    /\ attempt = [s \in Sessions |-> 0]
    /\ now = [s \in Sessions |-> 0]
    /\ existing = [s \in Sessions |-> NoFile]
    /\ result = [s \in Sessions |-> ""]
    /\ gcTask = [s \in Sessions |-> [id \in PlanIds |-> "none"]]
    /\ planningModeEnabled = [s \in Sessions |-> FALSE]
    /\ activePlanId = [s \in Sessions |-> Null]
    /\ activeTools = [s \in Sessions |-> HostTools]
    /\ note = [s \in Sessions |-> NoNote]
    /\ toolCall = [s \in Sessions |-> NoCall]

LockRequests ==
    {r \in CreateRequests : r.title # "" /\ r.steps = <<>> /\ r.status = Undefined}
    \cup {r \in UpdateRequests : r.status = "active" /\ r.title = Undefined}
    \cup {r \in StepRequests : r.action = "complete-step" /\ r.step_id = 1}
    \cup DeleteRequests

LockMenuActions == {"reopen", "delete"}

Next ==
    \/ \E d \in TickMs : Tick(d)
    \/ \E s \in Sessions :
        \/ \E r \in LockRequests : StartTool(s, r)
        \/ \E a \in LockMenuActions, id \in PlanIds, c \in BOOLEAN : StartMenu(s, a, id, c)
        \/ Operate(s)
        \/ AcquireWriteFail(s)

Spec == Init /\ [][Next]_vars

\* The retention sweep: processes start (and end, and start again) while
\* plans are created, completed and reopened and time passes.
SweepRequests ==
    {r \in CreateRequests : r.title # "" /\ r.steps = <<>>}
    \cup {r \in UpdateRequests : r.status \in {"draft", "completed"} /\ r.title = Undefined}

NextSweep ==
    \/ \E d \in TickMs : Tick(d)
    \/ \E s \in Sessions :
        \/ \E st \in GcSettings : SessionStart(s, st)
        \/ \E id \in PlanIds : GcRead(s, id)
        \/ \E id \in PlanIds : GcUnlink(s, id)
        \/ SessionReady(s, FALSE)
        \/ Quit(s)
        \/ \E r \in SweepRequests : StartTool(s, r)
        \/ Operate(s)

SpecSweep == InitOff /\ [][NextSweep]_vars

\* The sweep's choice: processes start, with every setting, on a store that
\* holds a record of any status and any created_at (old, young, exactly at the
\* cutoff, absent, unreadable) and sweep it, alone or two at a time.
GcNow == 365 * DAY_MS

GcDates ==
    {NoDate, BadDate, 0, GcNow - 30 * DAY_MS - 1, GcNow - 30 * DAY_MS,
     GcNow - 29 * DAY_MS, GcNow - 1, GcNow}

GcRecords ==
    {[id |-> id, title |-> t, status |-> st, created_at |-> c,
      assigned_to_session |-> Undefined, steps |-> <<>>, body |-> ""] :
       id \in PlanIds, t \in Titles, st \in Statuses, c \in GcDates}

InitGc ==
    /\ files \in {f \in [PlanIds -> GcRecords \cup {NoFile}] :
                    \A id \in PlanIds : f[id] # NoFile => f[id].id = id}
    /\ locks = [id \in PlanIds |-> NoLock]
    /\ clock = GcNow
    /\ ticks = 0
    /\ hasUI = [s \in Sessions |-> s \in Interactive]
    /\ pc = [s \in Sessions |-> "off"]
    /\ req = [s \in Sessions |-> NoReq]
    /\ attempt = [s \in Sessions |-> 0]
    /\ now = [s \in Sessions |-> 0]
    /\ existing = [s \in Sessions |-> NoFile]
    /\ result = [s \in Sessions |-> ""]
    /\ gcTask = [s \in Sessions |-> [id \in PlanIds |-> "none"]]
    /\ planningModeEnabled = [s \in Sessions |-> FALSE]
    /\ activePlanId = [s \in Sessions |-> Null]
    /\ activeTools = [s \in Sessions |-> HostTools]
    /\ note = [s \in Sessions |-> NoNote]
    /\ toolCall = [s \in Sessions |-> NoCall]

NextGc ==
    \E s \in Sessions :
        \/ \E st \in GcSettings : SessionStart(s, st)
        \/ \E id \in PlanIds : GcRead(s, id)
        \/ \E id \in PlanIds : GcUnlink(s, id)
        \/ SessionReady(s, FALSE)
        \/ Quit(s)

SpecGc == InitGc /\ [][NextGc]_vars

\* Acquisition alone, under fair scheduling: every operation that has started
\* goes on taking its steps (the awaits settle, the prompts are answered).
AcquireRequests ==
    {r \in CreateRequests : r.title # "" /\ r.steps = <<>> /\ r.status = Undefined}
    \cup {r \in UpdateRequests : r.status = "active" /\ r.title = Undefined}

NextAcquire ==
    \/ \E d \in TickMs : Tick(d)
    \/ \E s \in Sessions :
        \/ \E r \in AcquireRequests : StartTool(s, r)
        \/ Operate(s)

SpecAcquire ==
    Init /\ [][NextAcquire]_vars /\ \A s \in Sessions : WF_vars(Operate(s))

\* Validation: requests whose id is written in every accepted and refused
\* way, or lacks a required parameter, among the requests that build the
\* store and the process state they must leave alone.  The calls come one
\* after the other, from either session, so no lock is ever found taken.
ParamIds ==
    {<<>>, <<"a1">>, <<UpperHex>>, <<PLAN_ID_PREFIX, "a1">>, <<"#", "plan-", UpperHex>>,
     <<Blank, "#", "a1", Blank>>, <<Blank>>, <<"#">>, <<"zz">>, <<"a1", "a1">>,
     <<PLAN_ID_PREFIX, "#", "a1">>, <<"#", Blank, "a1">>}

ValidateActions == {"update", "add-step", "complete-step", "claim", "release", "execute", "delete"}

ValidateRequests ==
    {r \in CreateRequests : r.steps = <<>> /\ r.status = Undefined}
    \cup {[Request("tool", "create", Undefined) EXCEPT !.title = Undefined]}
    \cup {[Request("tool", a, Null) EXCEPT !.param = raw] :
            a \in ValidateActions \ {"add-step", "complete-step"}, raw \in ParamIds}
    \cup {[Request("tool", "add-step", Null) EXCEPT !.param = raw, !.step_text = txt] :
            raw \in ParamIds, txt \in {Undefined, "", "x"}}
    \cup {[Request("tool", "complete-step", Null) EXCEPT
                !.param = raw, !.has_step_id = given, !.step_id = 1] :
            raw \in ParamIds, given \in BOOLEAN}

OneAtATime(s) == \A o \in Sessions \ {s} : pc[o] = "idle"

NextValidate ==
    \E s \in Sessions :
        \/ OneAtATime(s) /\ \E r \in ValidateRequests : StartTool(s, r)
        \/ AcquireOpen(s)
        \/ FnRead(s)
        \/ FnWrite(s)
        \/ Release(s)
        \/ Return(s)

SpecValidate == Init /\ [][NextValidate]_vars

\* Planning mode and the active plan: the mode is toggled between calls of
\* the tool and of the menu, which come one after the other.
ModeRequests ==
    {r \in CreateRequests : r.title # "" /\ r.steps = <<>> /\ r.status = Undefined}
    \cup {r \in UpdateRequests : r.status = "completed" /\ r.title = Undefined}
    \cup AssignRequests
    \cup DeleteRequests

NextMode ==
    \E s \in Sessions :
        \/ togglePlanningMode(s)
        \/ OneAtATime(s) /\ \E r \in ModeRequests : StartTool(s, r)
        \/ OneAtATime(s) /\ \E a \in MenuActions, id \in PlanIds, c \in BOOLEAN :
                               StartMenu(s, a, id, c)
        \/ AcquireOpen(s)
        \/ FnRead(s)
        \/ FnWrite(s)
        \/ Release(s)
        \/ Return(s)

SpecMode == Init /\ [][NextMode]_vars

\* The steps of a plan: plans are created with and without steps, steps are
\* added and completed by every session, and plans are deleted.
StepsRequests ==
    {r \in CreateRequests : r.title # "" /\ r.status = Undefined}
    \cup StepRequests
    \cup DeleteRequests

NextSteps ==
    \E s \in Sessions :
        \/ \E r \in StepsRequests : StartTool(s, r)
        \/ Operate(s)

SpecSteps == Init /\ [][NextSteps]_vars

\* The note of a turn: plans with steps are created, executed, worked on and
\* deleted by the sessions, one after the other.  The turns that are followed
\* are those of the interactive session, whose user also toggles planning
\* mode; the other session changes the records between them.
TurnRequests ==
    {r \in CreateRequests : r.title # "" /\ r.status = Undefined}
    \cup StepRequests
    \cup {r \in AssignRequests : r.action = "execute" /\ ~r.force}
    \cup DeleteRequests

NextTurn ==
    \E s \in Sessions :
        \/ s \in Interactive /\ BeforeAgentStart(s)
        \/ s \in Interactive /\ togglePlanningMode(s)
        \/ OneAtATime(s) /\ \E r \in TurnRequests : StartTool(s, r)
        \/ AcquireOpen(s)
        \/ FnRead(s)
        \/ FnWrite(s)
        \/ Release(s)
        \/ Return(s)

SpecTurn == Init /\ [][NextTurn]_vars

\* Planning mode from the start of a process: processes start with and
\* without the plan flag (the sweep is disabled), planning mode is switched by
\* /plan on, /plan off and the shortcut, and plans are executed through the
\* tool and through the menu; the calls come one after the other.
FlagRequests ==
    {r \in CreateRequests : r.title # "" /\ r.steps = <<>> /\ r.status = Undefined}
    \cup {r \in AssignRequests : r.action = "execute"}

NextFlag ==
    \E s \in Sessions :
        \/ \E st \in {x \in GcSettings : ~x.gc /\ x.gcDays = 30} : SessionStart(s, st)
        \/ \E flag \in BOOLEAN : SessionReady(s, flag)
        \/ Quit(s)
        \/ togglePlanningMode(s)
        \/ \E arg \in {"on", "off"} : PlanCommand(s, arg)
        \/ OneAtATime(s) /\ \E r \in FlagRequests : StartTool(s, r)
        \/ OneAtATime(s) /\ \E id \in PlanIds : StartMenu(s, "execute", id, TRUE)
        \/ AcquireOpen(s)
        \/ FnRead(s)
        \/ FnWrite(s)
        \/ Release(s)
        \/ Return(s)

SpecFlag == InitOff /\ [][NextFlag]_vars

\* Shell commands in and out of planning mode: the tools of a session are
\* called with every command while planning mode is switched on and off and
\* plans are executed; the calls come one after the other.
NextBash ==
    \E s \in Sessions :
        \/ \E e \in ToolCalls : ToolCallHandler(s, e.toolName, e.command)
        \/ togglePlanningMode(s)
        \/ OneAtATime(s) /\ \E r \in FlagRequests : StartTool(s, r)
        \/ AcquireOpen(s)
        \/ FnRead(s)
        \/ FnWrite(s)
        \/ Release(s)
        \/ Return(s)

SpecBash == Init /\ [][NextBash]_vars

\* The prompts: locks grow stale while their holders are at work, and the
\* interactive session meets them in the menu's execute and delete and in the
\* tool's update, and answers the steal prompt and the delete prompt either way.
DeclineRequests ==
    {r \in CreateRequests : r.title # "" /\ r.steps = <<>> /\ r.status = Undefined}
    \cup {r \in UpdateRequests : r.status = "active" /\ r.title = Undefined}

DeclineMenuActions == {"execute", "delete"}

NextDecline ==
    \/ \E d \in TickMs : Tick(d)
    \/ \E s \in Sessions :
        \/ \E r \in DeclineRequests : StartTool(s, r)
        \/ \E a \in DeclineMenuActions, id \in PlanIds, c \in BOOLEAN :
              StartMenu(s, a, id, c)
        \/ Operate(s)

SpecDecline == Init /\ [][NextDecline]_vars

\* Deletion: records are created, executed, read and deleted, one call after
\* the other; a get may also follow a call that has returned to its agent.
DeleteSpecRequests ==
    {r \in CreateRequests : r.title # "" /\ r.status = Undefined}
    \cup {r \in AssignRequests : r.action = "execute"}
    \cup DeleteRequests

AfterReturns(s) == \A o \in Sessions \ {s} : pc[o] \in {"idle", "done"}

NextDelete ==
    \E s \in Sessions :
        \/ OneAtATime(s) /\ \E r \in DeleteSpecRequests : StartTool(s, r)
        \/ AfterReturns(s) /\ \E r \in GetRequests : StartTool(s, r)
        \/ GetRead(s)
        \/ AcquireOpen(s)
        \/ FnRead(s)
        \/ FnWrite(s)
        \/ Release(s)
        \/ Return(s)

SpecDelete == Init /\ [][NextDelete]_vars

\* Updates: plans with and without steps are created and executed, and
\* updated with every choice of supplied and omitted title, status and body;
\* one call after the other.
Bodies == {"B1"}

UpdateSpecRequests ==
    {r \in CreateRequests : r.title # "" /\ r.status = Undefined}
    \cup {r \in AssignRequests : r.action = "execute" /\ ~r.force}
    \cup {[Request("tool", "update", id) EXCEPT !.title = t, !.status = st, !.body = b] :
            id \in PlanIds, t \in {Undefined, ""} \cup Titles,
            st \in {Undefined} \cup Statuses, b \in {Undefined} \cup Bodies}

NextUpdate ==
    \E s \in Sessions :
        \/ OneAtATime(s) /\ \E r \in UpdateSpecRequests : StartTool(s, r)
        \/ AcquireOpen(s)
        \/ FnRead(s)
        \/ FnWrite(s)
        \/ Release(s)
        \/ Return(s)

SpecUpdate == Init /\ [][NextUpdate]_vars

\* The life of a record: it is created at one time or another, and then
\* every action of the tool and of the menu is applied to it by either
\* process, one call after the other, until it is deleted and made again.
RecordRequests ==
    {r \in CreateRequests : r.title # "" /\ r.status = Undefined /\ r.steps = <<>>}
    \cup {r \in UpdateRequests : r.status = "completed"}
    \cup {r \in StepRequests : r.action = "add-step" \/ r.step_id = 1}
    \cup AssignRequests
    \cup DeleteRequests

NextRecord ==
    \/ \E d \in TickMs : Tick(d)
    \/ \E s \in Sessions :
        \/ OneAtATime(s) /\ \E r \in RecordRequests : StartTool(s, r)
        \/ OneAtATime(s) /\ \E a \in MenuActions, id \in PlanIds, c \in BOOLEAN :
                               StartMenu(s, a, id, c)
        \/ AcquireOpen(s)
        \/ FnRead(s)
        \/ FnWrite(s)
        \/ Release(s)
        \/ Return(s)

SpecRecord == Init /\ [][NextRecord]_vars

\* Creation: every create request, with and without a title, a status and
\* steps, and the deletes that free the ids again; one call after the other.
NextCreate ==
    \E s \in Sessions :
        \/ OneAtATime(s) /\ \E r \in CreateRequests \cup DeleteRequests : StartTool(s, r)
        \/ AcquireOpen(s)
        \/ FnRead(s)
        \/ FnWrite(s)
        \/ Release(s)
        \/ Return(s)

SpecCreate == Init /\ [][NextCreate]_vars

\* Ownership and status: the tool's and the menu's actions on the plans'
\* status and assignment, from every session, with no time passing.
AccessRequests ==
    {r \in CreateRequests : r.title # "" /\ r.steps = <<>> /\ r.status = Undefined}
    \cup {r \in UpdateRequests : r.status \in {"active", "completed"} /\ r.title = Undefined}
    \cup AssignRequests
    \cup DeleteRequests

NextAccess ==
    \E s \in Sessions :
        \/ \E r \in AccessRequests : StartTool(s, r)
        \/ \E a \in MenuActions, id \in PlanIds, c \in BOOLEAN : StartMenu(s, a, id, c)
        \/ Operate(s)

SpecAccess == Init /\ [][NextAccess]_vars

\* ------------------------------------------- the text of a record file
\* In this part a string is the sequence of its characters.  The characters
\* are the ones the formats turn on, and words that stand for runs of other
\* characters; a number and a literal of JSON are one word each.
QUOTE == "\""
BACKSLASH == "\\"
LF == "\n"
CR == "\r"
SPACE == " "
INDENT == "  "
Whitespace == {SPACE, INDENT, LF, CR}
NumberWords == <<"1", "2", "3">>

RECURSIVE Flatten(_)
Flatten(texts) == IF texts = <<>> THEN <<>> ELSE Head(texts) \o Flatten(Tail(texts))

\* JSON.stringify of a string: the quotes, and the escapes of the characters
\* that need one
RECURSIVE Escape(_)
Escape(str) ==
    IF str = <<>> THEN <<>>
    ELSE LET c == Head(str)
         IN  (CASE c = QUOTE -> <<BACKSLASH, QUOTE>>
                [] c = BACKSLASH -> <<BACKSLASH, BACKSLASH>>
                [] c = LF -> <<BACKSLASH, "n">>
                [] c = CR -> <<BACKSLASH, "r">>
                [] OTHER -> <<c>>) \o Escape(Tail(str))

StringifyString(str) == <<QUOTE>> \o Escape(str) \o <<QUOTE>>

\* the indentation of JSON.stringify(value, null, 2) at a depth
Indent(n) == [i \in 1..n |-> INDENT]

\* one member of an object printed with an indentation of two spaces
Member(depth, key, valueText) ==
    Indent(depth) \o StringifyString(<<key>>) \o <<":", SPACE>> \o valueText

RECURSIVE JoinLines(_)
JoinLines(items) ==
    IF items = <<>> THEN <<>>
    ELSE IF Len(items) = 1 THEN Head(items) \o <<LF>>
    ELSE Head(items) \o <<",", LF>> \o JoinLines(Tail(items))

StringifyStep(step) ==
    Indent(2) \o <<"{", LF>>
    \o JoinLines(<<Member(3, "id", <<NumberWords[step.id]>>),
                   Member(3, "text", StringifyString(step.text)),
                   Member(3, "done", <<IF step.done THEN "true" ELSE "false">>)>>)
    \o Indent(2) \o <<"}">>

StringifySteps(steps) ==
    IF steps = <<>> THEN <<"[", "]">>
    ELSE <<"[", LF>> \o JoinLines([i \in 1..Len(steps) |-> StringifyStep(steps[i])])
         \o Indent(1) \o <<"]">>

\* body.replace(/^\n+/, "")
RECURSIVE StripLeadingLF(_)
StripLeadingLF(str) ==
    IF str # <<>> /\ Head(str) = LF THEN StripLeadingLF(Tail(str)) ELSE str

\* .replace(/\s+$/, "")
RECURSIVE StripTrailingSpace(_)
StripTrailingSpace(str) ==
    IF str # <<>> /\ str[Len(str)] \in Whitespace
    THEN StripTrailingSpace(SubSeq(str, 1, Len(str) - 1)) ELSE str

\* an optional string is <<>> when undefined and <<str>> when a string;
\* assigned_to_session || undefined leaves out the empty string too
serializePlan(plan) ==
    LET assigned == IF plan.assigned_to_session = <<>> \/ plan.assigned_to_session = <<<<>>>>
                    THEN <<>>
                    ELSE <<Member(1, "assigned_to_session",
                                  StringifyString(plan.assigned_to_session[1]))>>
        frontMatter ==
            <<"{", LF>>
            \o JoinLines(<<Member(1, "id", StringifyString(plan.id)),
                           Member(1, "title", StringifyString(plan.title)),
                           Member(1, "status", StringifyString(plan.status)),
                           Member(1, "created_at", StringifyString(plan.created_at))>>
                         \o assigned
                         \o <<Member(1, "steps", StringifySteps(plan.steps))>>)
            \o <<"}">>
        trimmedBody == StripTrailingSpace(StripLeadingLF(plan.body))
    IN  IF trimmedBody = <<>> THEN frontMatter \o <<LF>>
        ELSE frontMatter \o <<LF, LF>> \o trimmedBody \o <<LF>>

\* mutant of ScanChar: a quote opens no string
ScanCharNoStrings(char, depth, inString, escaped) ==
    IF char = "{"
    THEN [depth |-> depth + 1, inString |-> FALSE, escaped |-> escaped, end |-> FALSE]
    ELSE IF char = "}"
         THEN [depth |-> depth - 1, inString |-> FALSE, escaped |-> escaped,
               end |-> depth - 1 = 0]
    ELSE [depth |-> depth, inString |-> FALSE, escaped |-> escaped, end |-> FALSE]

\* mutant of ScanChar: a backslash inside a string escapes nothing
ScanCharNoEscape(char, depth, inString, escaped) ==
    IF inString
    THEN [depth |-> depth, inString |-> char # QUOTE, escaped |-> FALSE, end |-> FALSE]
    ELSE IF char = QUOTE
         THEN [depth |-> depth, inString |-> TRUE, escaped |-> escaped, end |-> FALSE]
    ELSE IF char = "{"
         THEN [depth |-> depth + 1, inString |-> FALSE, escaped |-> escaped, end |-> FALSE]
    ELSE IF char = "}"
         THEN [depth |-> depth - 1, inString |-> FALSE, escaped |-> escaped,
               end |-> depth - 1 = 0]
    ELSE [depth |-> depth, inString |-> FALSE, escaped |-> escaped, end |-> FALSE]

\* one round of the loop of findJsonObjectEnd on the character char: the
\* values of depth, inString and escaped after it, and whether it returns
ScanChar(char, depth, inString, escaped) ==
    IF inString
    THEN IF escaped THEN [depth |-> depth, inString |-> TRUE, escaped |-> FALSE, end |-> FALSE]
         ELSE IF char = BACKSLASH
              THEN [depth |-> depth, inString |-> TRUE, escaped |-> TRUE, end |-> FALSE]
         ELSE [depth |-> depth, inString |-> char # QUOTE, escaped |-> FALSE, end |-> FALSE]
    ELSE IF char = QUOTE
         THEN [depth |-> depth, inString |-> TRUE, escaped |-> escaped, end |-> FALSE]
    ELSE IF char = "{"
         THEN [depth |-> depth + 1, inString |-> FALSE, escaped |-> escaped, end |-> FALSE]
    ELSE IF char = "}"
         THEN [depth |-> depth - 1, inString |-> FALSE, escaped |-> escaped,
               end |-> depth - 1 = 0]
    ELSE [depth |-> depth, inString |-> FALSE, escaped |-> escaped, end |-> FALSE]

\* the rounds of the loop on the characters first..last, positions counted
\* from 1, from the values in st; at is the position the loop returned at, 0
\* while it has not.  The rounds of a range are those of its first half and
\* then those of its second half.
RECURSIVE Scan(_, _, _, _)
Scan(content, first, last, st) ==
    IF st.at # 0 THEN st
    ELSE IF first = last
    THEN LET round == ScanChar(content[first], st.depth, st.inString, st.escaped)
         IN  [depth |-> round.depth, inString |-> round.inString,
              escaped |-> round.escaped, at |-> IF round.end THEN first ELSE 0]
    ELSE LET middle == (first + last) \div 2
             half == Scan(content, first, middle, st)
         IN  Scan(content, middle + 1, last, half)

findJsonObjectEnd(content) ==
    IF content = <<>> THEN -1
    ELSE LET st == Scan(content, 1, Len(content),
                        [depth |-> 0, inString |-> FALSE, escaped |-> FALSE, at |-> 0])
         IN  IF st.at = 0 THEN -1 ELSE st.at

\* .replace(/^\r?\n+/, "")
StripLeadingNewlines(str) ==
    LET rest == IF str # <<>> /\ Head(str) = CR THEN Tail(str) ELSE str
    IN  IF rest # <<>> /\ Head(rest) = LF THEN StripLeadingLF(rest) ELSE str

splitFrontMatter(content) ==
    IF content = <<>> \/ Head(content) # "{"
    THEN [frontMatter |-> <<>>, body |-> content]
    ELSE LET endIndex == findJsonObjectEnd(content)
         IN  IF endIndex = -1 THEN [frontMatter |-> <<>>, body |-> content]
             ELSE [frontMatter |-> SubSeq(content, 1, endIndex),
                   body |-> StripLeadingNewlines(
                                SubSeq(content, endIndex + 1, Len(content)))]

\* ------------------------------------------------------------ JSON.parse
\* A parse returns ok, the value and the position after it.  A value is
\* [type, v]: a string's characters, a number, a boolean, an array's items,
\* an object's members (key and value) in the order of the text.
ParseError == [ok |-> FALSE]
Parsed(type, v, next) == [ok |-> TRUE, value |-> [type |-> type, v |-> v], next |-> next]

RECURSIVE SkipSpace(_, _)
SkipSpace(src, i) ==
    IF i <= Len(src) /\ src[i] \in Whitespace THEN SkipSpace(src, i + 1) ELSE i

\* the characters of a string from position i, after the opening quote
RECURSIVE ParseChars(_, _, _)
ParseChars(src, i, acc) ==
    IF i > Len(src) THEN ParseError
    ELSE LET c == src[i]
         IN  IF c = QUOTE THEN Parsed("string", acc, i + 1)
             ELSE IF c \in {LF, CR} THEN ParseError
             ELSE IF c = BACKSLASH
                  THEN IF i + 1 > Len(src) THEN ParseError
                       ELSE LET e == src[i + 1]
                            IN  IF e \in {QUOTE, BACKSLASH}
                                THEN ParseChars(src, i + 2, Append(acc, e))
                                ELSE IF e = "n" THEN ParseChars(src, i + 2, Append(acc, LF))
                                ELSE IF e = "r" THEN ParseChars(src, i + 2, Append(acc, CR))
                                ELSE ParseError
                  ELSE ParseChars(src, i + 1, Append(acc, c))

NumberOf(word) == CHOOSE n \in 1..Len(NumberWords) : NumberWords[n] = word

RECURSIVE ParseValue(_, _)
RECURSIVE ParseItems(_, _, _)
RECURSIVE ParseMember(_, _)
RECURSIVE ParseMembers(_, _, _)

ParseValue(src, at) ==
    LET i == SkipSpace(src, at)
        c == src[i]
        j == SkipSpace(src, i + 1)
    IN  IF i > Len(src) THEN ParseError
        ELSE IF c = QUOTE THEN ParseChars(src, i + 1, <<>>)
        ELSE IF c \in {"true", "false"} THEN Parsed("boolean", c = "true", i + 1)
        ELSE IF \E n \in 1..Len(NumberWords) : NumberWords[n] = c
             THEN Parsed("number", NumberOf(c), i + 1)
        ELSE IF c = "["
             THEN IF j <= Len(src) /\ src[j] = "]" THEN Parsed("array", <<>>, j + 1)
                  ELSE ParseItems(src, i + 1, <<>>)
        ELSE IF c = "{"
             THEN IF j <= Len(src) /\ src[j] = "}" THEN Parsed("object", <<>>, j + 1)
                  ELSE ParseMembers(src, i + 1, <<>>)
        ELSE ParseError

\* the items of an array from position at, up to its closing bracket
ParseItems(src, at, acc) ==
    LET item == ParseValue(src, at)
        j == SkipSpace(src, item.next)
    IN  IF ~item.ok \/ j > Len(src) THEN ParseError
        ELSE IF src[j] = "," THEN ParseItems(src, j + 1, Append(acc, item.value))
        ELSE IF src[j] = "]" THEN Parsed("array", Append(acc, item.value), j + 1)
        ELSE ParseError

\* one member of an object, key : value, from position at
ParseMember(src, at) ==
    LET i == SkipSpace(src, at)
        key == ParseChars(src, i + 1, <<>>)
        k == SkipSpace(src, key.next)
        val == ParseValue(src, k + 1)
    IN  IF i > Len(src) \/ src[i] # QUOTE \/ ~key.ok \/ k > Len(src)
           \/ src[k] # ":" \/ ~val.ok
        THEN ParseError
        ELSE [ok |-> TRUE, member |-> [key |-> key.value.v, value |-> val.value],
              next |-> val.next]

\* the members of an object from position at, up to its closing brace
ParseMembers(src, at, acc) ==
    LET m == ParseMember(src, at)
        j == SkipSpace(src, m.next)
    IN  IF ~m.ok \/ j > Len(src) THEN ParseError
        ELSE IF src[j] = "," THEN ParseMembers(src, j + 1, Append(acc, m.member))
        ELSE IF src[j] = "}" THEN Parsed("object", Append(acc, m.member), j + 1)
        ELSE ParseError

\* JSON.parse(text): ok is FALSE where it throws
JSONparse(source) ==
    LET val == ParseValue(source, 1)
    IN  IF ~val.ok THEN ParseError
        ELSE IF SkipSpace(source, val.next) <= Len(source) THEN ParseError
        ELSE val

\* parsed.key of an object: [type |-> "undefined"] when it has no such member
Property(members, key) ==
    IF \E i \in 1..Len(members) : members[i].key = <<key>>
    THEN members[CHOOSE i \in 1..Len(members) :
                    /\ members[i].key = <<key>>
                    /\ \A j \in (i + 1)..Len(members) : members[j].key # <<key>>].value
    ELSE [type |-> "undefined"]

RECURSIVE StripLeadingSpace(_)
StripLeadingSpace(str) ==
    IF str # <<>> /\ Head(str) \in Whitespace THEN StripLeadingSpace(Tail(str)) ELSE str

\* text.trim()
Trim(untrimmed) == StripTrailingSpace(StripLeadingSpace(untrimmed))

\* the test of parseFrontMatter's filter on an item of steps
IsPlanStep(item) ==
    /\ item.type = "object"
    /\ Property(item.v, "id").type = "number"
    /\ Property(item.v, "text").type = "string"
    /\ Property(item.v, "done").type = "boolean"

StepOf(item) ==
    [id |-> Property(item.v, "id").v, text |-> Property(item.v, "text").v,
     done |-> Property(item.v, "done").v]

\* parseFrontMatter from "if (!trimmed) return data" on: trimmed is
\* text.trim() and json what JSON.parse(trimmed) gives, or its exception
FrontMatterOf(trimmed, json, data) ==
    IF trimmed = <<>> THEN data
    ELSE IF ~json.ok THEN data
    ELSE IF json.value.type # "object" THEN data
    ELSE LET parsed == json.value.v
             id == Property(parsed, "id")
             title == Property(parsed, "title")
             status == Property(parsed, "status")
             created_at == Property(parsed, "created_at")
             assigned == Property(parsed, "assigned_to_session")
             steps == Property(parsed, "steps")
         IN  [id |-> IF id.type = "string" /\ id.v # <<>> THEN id.v ELSE data.id,
              title |-> IF title.type = "string" THEN title.v ELSE data.title,
              status |-> IF status.type = "string" THEN status.v ELSE data.status,
              created_at |-> IF created_at.type = "string" THEN created_at.v
                             ELSE data.created_at,
              assigned_to_session |->
                  IF assigned.type = "string" /\ Trim(assigned.v) # <<>>
                  THEN <<assigned.v>> ELSE data.assigned_to_session,
              steps |-> IF steps.type = "array"
                        THEN LET kept == SelectSeq(steps.v, IsPlanStep)
                             IN  [i \in 1..Len(kept) |-> StepOf(kept[i])]
                        ELSE data.steps]

parseFrontMatter(text, idFallback) ==
    FrontMatterOf(Trim(text), JSONparse(Trim(text)),
                  [id |-> idFallback, title |-> <<>>, status |-> <<"draft">>,
                   created_at |-> <<>>, assigned_to_session |-> <<>>, steps |-> <<>>])

\* the record parsePlanContent returns for the front matter and the body
PlanRecordOf(parsed, body) ==
    [id |-> parsed.id, title |-> parsed.title, status |-> parsed.status,
     created_at |-> parsed.created_at,
     assigned_to_session |-> parsed.assigned_to_session,
     steps |-> parsed.steps, body |-> body]

PlanOfSplit(split, idFallback) ==
    PlanRecordOf(parseFrontMatter(split.frontMatter, idFallback), split.body)

parsePlanContent(content, idFallback) == PlanOfSplit(splitFrontMatter(content), idFallback)

\* writePlanFile of the record session s holds, and readPlanFile of the file
RoundTrip(s) ==
    /\ pc[s] = "idle"
    /\ existing[s] # NoFile
    /\ \E id \in PlanIds :
          /\ existing[s].id = <<id>>
          /\ files' = [files EXCEPT ![id] =
                  parsePlanContent(serializePlan(existing[s]), existing[s].id)]
    /\ pc' = [pc EXCEPT ![s] = "done"]
    /\ UNCHANGED <<locks, clock, ticks, hasUI, req, attempt, now, existing, result,
                   gcTask, planningModeEnabled, activePlanId, activeTools, note,
                   toolCall>>

\* The round trip: a process holds a record of any content, the texts with
\* the characters the formats turn on, and writes and reads it.
RoundTripTexts ==
    {<<>>, <<"x">>, <<QUOTE>>, <<BACKSLASH>>, <<"x", "}", QUOTE, "{">>,
     <<BACKSLASH, "n", LF>>}

RoundTripBodies ==
    {<<>>, <<"x">>, <<LF, LF, "x", SPACE, LF>>, <<SPACE, LF>>, <<"{", "x", "}", LF, LF, "y">>,
     <<CR, LF, "x">>, <<SPACE, LF, "x", CR, LF>>, <<QUOTE, "x">>}

RoundTripSteps ==
    {<<>>,
     <<[id |-> 1, text |-> <<"x">>, done |-> TRUE]>>,
     <<[id |-> 1, text |-> <<QUOTE, "}">>, done |-> FALSE],
       [id |-> 2, text |-> <<>>, done |-> TRUE]>>,
     <<[id |-> 3, text |-> <<BACKSLASH>>, done |-> FALSE],
       [id |-> 3, text |-> <<"x", LF>>, done |-> FALSE]>>}

RoundTripPlan(id, title, status, created_at, assigned, steps, body) ==
    [id |-> <<id>>, title |-> title, status |-> <<status>>, created_at |-> created_at,
     assigned_to_session |-> assigned, steps |-> steps, body |-> body]

RoundTripDates == {<<>>, <<"2026-11-04T00:00:00.000Z">>}

RoundTripSessions == {<<>>, <<<<"s1">>>>, <<<<>>>>, <<<<SPACE>>>>}

\* every title with every list of steps, every body with every assignment and
\* date, and every status
RoundTripPlans ==
    {RoundTripPlan(id, t, "draft", <<>>, <<<<"s1">>>>, steps, <<LF, LF, "x", SPACE, LF>>) :
       id \in PlanIds, t \in RoundTripTexts, steps \in RoundTripSteps}
    \cup {RoundTripPlan(id, <<"x", "}", QUOTE, "{">>, "active", c, a, <<>>, b) :
            id \in PlanIds, c \in RoundTripDates, a \in RoundTripSessions,
            b \in RoundTripBodies}
    \cup {RoundTripPlan(id, <<"x">>, st, c, <<>>, steps, <<>>) :
            id \in PlanIds, st \in Statuses, c \in RoundTripDates,
            steps \in RoundTripSteps}

InitRoundTrip ==
    /\ files = [id \in PlanIds |-> NoFile]
    /\ locks = [id \in PlanIds |-> NoLock]
    /\ clock = 0
    /\ ticks = 0
    /\ hasUI = [s \in Sessions |-> s \in Interactive]
    /\ pc = [s \in Sessions |-> "idle"]
    /\ req = [s \in Sessions |-> NoReq]
    /\ attempt = [s \in Sessions |-> 0]
    /\ now = [s \in Sessions |-> 0]
    /\ existing \in {[s \in Sessions |-> IF s \in Interactive THEN p ELSE NoFile] :
                       p \in RoundTripPlans}
    /\ result = [s \in Sessions |-> ""]
    /\ gcTask = [s \in Sessions |-> [id \in PlanIds |-> "none"]]
    /\ planningModeEnabled = [s \in Sessions |-> FALSE]
    /\ activePlanId = [s \in Sessions |-> Null]
    /\ activeTools = [s \in Sessions |-> HostTools]
    /\ note = [s \in Sessions |-> NoNote]
    /\ toolCall = [s \in Sessions |-> NoCall]

NextRoundTrip == \E s \in Sessions : RoundTrip(s)

SpecRoundTrip == InitRoundTrip /\ [][NextRoundTrip]_vars

\* ================================================================== claims
\* what the formulas below say about a step
InCriticalSection(s) == pc[s] \in {"read", "write"}
InAcquire(s) == pc[s] \in {"open", "stat", "confirm", "confirmed", "refused"}
Steps(s) == pc'[s] # pc[s]
LockOf(s) == locks[req[s].id]

\* C1: at most one withPlanLock call is executing its critical section fn on
\* a plan id at any time, also when a stale lock is stolen.
C1_MutualExclusion ==
    \A s, t \in Sessions :
        s # t /\ InCriticalSection(s) /\ InCriticalSection(t)
            => req[s].id # req[t].id

\* C6: once withPlanLock has acquired the lock and fn has ended (a value, an
\* {error} or a throw), the lock file it created is gone when withPlanLock
\* completes; so once every operation has finished no lock that was granted
\* to any of them remains.
C6_LockReleased ==
    \A s \in Sessions :
        pc[s] \in {"done", "idle"} =>
            \A id \in PlanIds :
                ~(locks[id] # NoLock /\ locks[id].granted /\ locks[id].session = s)

\* a critical section that threw (its record was deleted under it) has ended,
\* and no lock is left
C6_Witness ==
    \E s \in Sessions :
        /\ pc[s] = "done" /\ result[s] = "threw" /\ req[s].action = "update"
        /\ \A id \in PlanIds : locks[id] = NoLock

\* C8: when acquire finds the lock file there with an age of at most the TTL,
\* it returns the 'locked' error at once: no prompt, no retry, the lock file
\* untouched, the critical section not run.
C8_FreshLockRefused ==
    [][\A s \in Sessions :
        (/\ pc[s] = "stat" /\ Steps(s)
         /\ LockOf(s) # NoLock
         /\ now[s] - LockOf(s).mtimeMs <= LOCK_TTL_MS)
        => /\ pc'[s] = "done"
           /\ result'[s] = "locked"
           /\ attempt'[s] = attempt[s]
           /\ locks' = locks
           /\ files' = files]_vars

\* a first attempt refused by a lock exactly as old as the TTL, in a session
\* that could have been asked to steal it
C8_Witness ==
    \E s \in Sessions :
        /\ pc[s] = "done" /\ result[s] = "locked" /\ attempt[s] = 0 /\ hasUI[s]
        /\ LockOf(s) # NoLock /\ LockOf(s).session # s
        /\ now[s] - LockOf(s).mtimeMs = LOCK_TTL_MS

\* C9 as stated: without a UI, a lock older than the TTL is discarded and the
\* acquisition goes on.
C9_StaleLockAutoDiscarded ==
    [][\A s \in Sessions :
        (/\ pc[s] = "stat" /\ Steps(s) /\ ~hasUI[s]
         /\ LockOf(s) # NoLock
         /\ now[s] - LockOf(s).mtimeMs > LOCK_TTL_MS)
        => /\ locks'[req[s].id] = NoLock
           /\ pc'[s] \in {"open", "read", "write"}]_vars

\* C9 as amended: without a UI, a lock older than the TTL makes acquire return
\* the 'stale, rerun interactively' error; the lock stays and the action ends.
C9_StaleLockReported ==
    [][\A s \in Sessions :
        (/\ pc[s] = "stat" /\ Steps(s) /\ ~hasUI[s]
         /\ LockOf(s) # NoLock
         /\ now[s] - LockOf(s).mtimeMs > LOCK_TTL_MS)
        => /\ pc'[s] = "done"
           /\ result'[s] = "stale"
           /\ locks' = locks
           /\ files' = files]_vars

C9_Witness ==
    \E s \in Sessions :
        /\ pc[s] = "done" /\ result[s] = "stale" /\ ~hasUI[s]
        /\ LockOf(s) # NoLock /\ LockOf(s).session # s
        /\ now[s] - LockOf(s).mtimeMs > LOCK_TTL_MS

\* C10: acquire deletes an existing lock file only after the user has
\* confirmed the steal; a refusal returns 'remains locked' and a stale lock
\* met without a UI returns 'stale', and both leave the lock file in place and
\* the critical section not run.
C10_NoStealWithoutConfirmation ==
    [][\A s \in Sessions :
        (InAcquire(s) /\ (Steps(s) \/ attempt'[s] # attempt[s])) =>
            /\ (LockOf(s) # NoLock /\ locks'[req[s].id] # LockOf(s))
                   => pc[s] = "confirmed" /\ hasUI[s]
            /\ pc[s] = "refused"
                   => pc'[s] = "done" /\ result'[s] = "remains" /\ locks' = locks
            /\ (pc[s] = "stat" /\ ~hasUI[s] /\ lockAge(now[s], LockOf(s)) > LOCK_TTL_MS)
                   => pc'[s] = "done" /\ result'[s] = "stale" /\ locks' = locks]_vars

\* the user has refused the steal of a stale lock, which is still there
C10_Witness ==
    \E s \in Sessions :
        /\ pc[s] = "done" /\ result[s] = "remains"
        /\ LockOf(s) # NoLock /\ LockOf(s).session # s
        /\ now[s] - LockOf(s).mtimeMs > LOCK_TTL_MS

\* what a step does to the record of a plan
Changes(id) == files'[id] # files[id]
LockFailures == {"locked", "stale", "remains", "lock failed"}

\* C2: every write or deletion of a record file <id>.md, the sweep's
\* included, is made by a session that holds the lock file <id>.lock.
C2_WritesUnderLock ==
    [][\A id \in PlanIds :
        Changes(id) =>
            \E s \in Sessions :
                /\ pc[s] = "write" /\ Steps(s) /\ req[s].id = id
                /\ locks[id] # NoLock /\ locks[id].session = s]_vars

\* C3: while a plan is assigned to a session, an operation of another session
\* changes or deletes its record only if it carries the force override.
C3_ForeignChangeNeedsForce ==
    [][\A id \in PlanIds, s \in Sessions :
        (/\ Changes(id)
         /\ pc[s] = "write" /\ Steps(s) /\ req[s].id = id
         /\ files[id] # NoFile
         /\ files[id].assigned_to_session \notin {Undefined, s})
        => req[s].force]_vars

\* C4: a plan whose record says completed or archived is never set to active
\* and never given a new assigned_to_session, by the tool or by the menu.
C4_TerminalPlanNotExecuted ==
    [][\A id \in PlanIds :
        (/\ files[id] # NoFile /\ files'[id] # NoFile
         /\ isPlanCompleted(files[id].status))
        => /\ files'[id].status # "active"
           /\ files'[id].assigned_to_session
                \in {files[id].assigned_to_session, Undefined}]_vars

\* the changes of status the plan's life cycle allows
StatusMoves ==
    {<<"draft", "active">>, <<"active", "active">>,
     <<"active", "completed">>, <<"active", "archived">>,
     <<"completed", "draft">>, <<"archived", "draft">>}

\* C5: a record's status changes only along draft->active, active->active,
\* active->completed or archived, and completed or archived->draft.
C5_StatusMoves ==
    [][\A id \in PlanIds :
        (/\ files[id] # NoFile /\ files'[id] # NoFile
         /\ files'[id].status # files[id].status)
        => <<files[id].status, files'[id].status>> \in StatusMoves]_vars

\* C7: when the lock acquisition of a mutating operation fails, the operation
\* ends with that error and has no other effect: the record, the active-plan
\* pointer, planning mode and the permitted tools keep their values.
C7_LockFailureHasNoEffect ==
    [][\A s \in Sessions :
        (/\ pc[s] # "done" /\ pc'[s] = "done"
         /\ result'[s] \in LockFailures)
        => /\ files' = files
           /\ activePlanId'[s] = activePlanId[s]
           /\ planningModeEnabled'[s] = planningModeEnabled[s]
           /\ activeTools'[s] = activeTools[s]]_vars

\* handle.writeFile fails on the lock file that fs.open has just created
WriteFails(s) == pc[s] = "open" /\ LockOf(s) = NoLock /\ pc'[s] = "done"

\* C11 as stated: once the user has confirmed the steal of a stale lock, the
\* requesting action does not end with a lock error, whatever the other
\* sessions do in between.
C11_StealAlwaysSucceeds ==
    [][\A s \in Sessions :
        (/\ attempt'[s] >= 1
         /\ pc[s] # "done" /\ pc'[s] = "done"
         /\ ~WriteFails(s))
        => result'[s] \notin LockFailures]_vars

\* C11: once the user has confirmed the steal, the lock file is unlinked and
\* the acquisition is retried once; the retry takes the lock and enters the
\* critical section when the lock file is still absent, and otherwise the
\* action ends with a lock error (or a second prompt) without running it.
C11_StealThenRetry ==
    [][\A s \in Sessions :
        /\ (pc[s] = "confirmed" /\ Steps(s))
              => /\ locks'[req[s].id] = NoLock
                 /\ attempt'[s] = attempt[s] + 1
                 /\ attempt[s] = 0 => pc'[s] = "open"
        /\ (pc[s] = "open" /\ attempt[s] >= 1 /\ Steps(s))
              => IF LockOf(s) = NoLock
                 THEN \/ /\ pc'[s] \in {"read", "write"}
                         /\ locks'[req[s].id] # NoLock
                         /\ locks'[req[s].id].session = s
                      \/ pc'[s] = "done" /\ result'[s] = "lock failed"
                 ELSE pc'[s] = "stat" /\ locks' = locks
        /\ (pc[s] = "stat" /\ attempt[s] >= 1 /\ Steps(s))
              => \/ pc'[s] = "confirm"
                 \/ pc'[s] = "done" /\ result'[s] \in LockFailures]_vars

\* an action that stole a stale lock, ran its critical section and succeeded
C11_Witness ==
    \E s \in Sessions :
        /\ pc[s] = "done" /\ attempt[s] = 1 /\ result[s] = "ok"
        /\ hasUI[s] /\ req[s].via = "tool"

\* C12: a call of acquire makes at most 2 exclusive-create attempts on the
\* lock file and, when every prompt is answered, comes to an end: with the
\* lock (the critical section starts) or with an error.
C12_AcquireTerminates ==
    /\ [](\A s \in Sessions :
            /\ attempt[s] <= 2
            /\ pc[s] = "open" => attempt[s] <= 1)
    /\ \A s \in Sessions : InAcquire(s) ~> ~InAcquire(s)

\* an acquisition that went round the loop twice and ended with an error
C12_Witness ==
    \E s \in Sessions :
        pc[s] = "done" /\ attempt[s] = 2 /\ result[s] = "lock failed"

\* the errors an action returns before it touches the store
ValidationErrors ==
    {"title required", "id required", "step_text required", "step_id required",
     "invalid id", "not found"}

\* a request the tool must refuse: a required parameter is missing, the id
\* does not normalize to a hex id, or the id has no record
Refused(r, fs) ==
    IF r.action = "create" THEN r.title \in {Undefined, ""}
    ELSE \/ r.param = <<>>
         \/ r.action = "add-step" /\ r.step_text \in {Undefined, ""}
         \/ r.action = "complete-step" /\ ~r.has_step_id
         \/ validatePlanId(r.param).error # ""
         \/ fs[validatePlanId(r.param).id] = NoFile

\* C14: a request with a missing required parameter, an id that does not
\* normalize to 8 hex digits, or an id with no record returns an error and
\* changes nothing: no record written or deleted, no lock file created, the
\* active-plan pointer and planning mode as they were.
C14_RefusedRequestChangesNothing ==
    [][\A s \in Sessions :
        (/\ pc[s] = "idle" /\ Steps(s)
         /\ req'[s].via = "tool"
         /\ Refused(req'[s], files))
        => /\ pc'[s] = "done"
           /\ result'[s] \in ValidationErrors
           /\ files' = files /\ locks' = locks
           /\ activePlanId' = activePlanId
           /\ planningModeEnabled' = planningModeEnabled
           /\ activeTools' = activeTools]_vars

\* an execute that names no record is refused while the process has an
\* active plan, which it keeps
C14_Witness ==
    \E s \in Sessions :
        /\ pc[s] = "done" /\ result[s] = "not found" /\ req[s].action = "execute"
        /\ activePlanId[s] # Null

\* C13: every action of the plan tool ends by returning a structured result;
\* none ends with an uncaught exception, also when the record is deleted by
\* another session after the existence check or generatePlanId runs out of
\* attempts.
C13_NoUncaughtException ==
    \A s \in Sessions :
        (pc[s] = "done" /\ req[s].via = "tool") => result[s] # "threw"

\* the record the tool's claim, release or execute of session s must refuse:
\* assigned to another session with no force, or terminal (claim, execute)
Conflicting(r, e, s) ==
    /\ r.via = "tool" /\ r.action \in {"claim", "release", "execute"}
    /\ \/ e.assigned_to_session \notin {Undefined, s} /\ ~r.force
       \/ r.action \in {"claim", "execute"} /\ isPlanCompleted(e.status)

ConflictErrors == {"assigned", "terminal"}

\* C15: a claim, release or execute on a plan assigned to another session
\* without force, and a claim or execute on a completed or archived plan,
\* returns a conflict error, writes nothing to the record and leaves the
\* caller's active-plan pointer and planning mode as they were.
C15_ConflictLeavesAllUnchanged ==
    [][\A s \in Sessions :
        /\ (/\ pc[s] = "read" /\ Steps(s)
            /\ files[req[s].id] # NoFile
            /\ Conflicting(req[s], files[req[s].id], s))
           => /\ pc'[s] = "release"
              /\ result'[s] \in ConflictErrors
              /\ files' = files
        /\ (pc[s] = "release" /\ Steps(s) /\ result[s] \in ConflictErrors)
           => /\ pc'[s] = "done"
              /\ result'[s] = result[s]
              /\ files' = files
              /\ activePlanId'[s] = activePlanId[s]
              /\ planningModeEnabled'[s] = planningModeEnabled[s]
              /\ activeTools'[s] = activeTools[s]]_vars

\* an execute refused on a plan that is assigned to another session
C15_Witness ==
    \E s \in Sessions :
        /\ pc[s] = "done" /\ req[s].via = "tool" /\ req[s].action = "execute"
        /\ result[s] = "assigned"
        /\ files[req[s].id] # NoFile
        /\ files[req[s].id].assigned_to_session \notin {Undefined, s}

\* the tool's execute of session s
ToolExecute(s) == req[s].via = "tool" /\ req[s].action = "execute"

\* C16: a tool execute by session S on an existing non-terminal plan with no
\* assignment (or with S's own) leaves the record with status active and
\* assigned to S, sets S's active-plan pointer to the plan, turns planning
\* mode off and installs the full tool set.
C16_ExecuteActivates ==
    [][\A s \in Sessions :
        /\ (/\ pc[s] = "read" /\ Steps(s) /\ ToolExecute(s)
            /\ files[req[s].id] # NoFile
            /\ ~isPlanCompleted(files[req[s].id].status)
            /\ files[req[s].id].assigned_to_session \in {Undefined, s})
           => /\ pc'[s] = "write"
              /\ existing'[s] = [files[req[s].id] EXCEPT
                                    !.status = "active", !.assigned_to_session = s]
        /\ (pc[s] = "write" /\ Steps(s) /\ ToolExecute(s))
           => /\ files'[req[s].id] = existing[s]
              /\ result'[s] = "ok"
        /\ (pc[s] = "release" /\ Steps(s) /\ ToolExecute(s) /\ result[s] = "ok")
           => /\ pc'[s] = "done" /\ result'[s] = "ok"
              /\ activePlanId'[s] = req[s].id
              /\ ~planningModeEnabled'[s]
              /\ activeTools'[s] = NORMAL_MODE_TOOLS]_vars

\* a session in planning mode has executed a plan: the record is active and
\* its own, and the call is about to return
C16_Witness ==
    \E s \in Sessions :
        /\ pc[s] = "release" /\ ToolExecute(s) /\ result[s] = "ok"
        /\ planningModeEnabled[s] /\ activeTools[s] = PLAN_MODE_TOOLS
        /\ files[req[s].id] # NoFile
        /\ files[req[s].id].status = "active"
        /\ files[req[s].id].assigned_to_session = s

\* the operations that release, delete or complete a plan
Relinquishes(r) ==
    \/ r.via = "tool" /\ r.action \in {"release", "delete"}
    \/ r.via = "tool" /\ r.action = "update" /\ r.status = "completed"
    \/ r.via = "menu" /\ r.action \in {"complete", "release", "delete"}

\* C17: when a process releases, deletes or completes the plan its
\* active-plan pointer refers to, through the tool or through the menu, the
\* pointer is cleared by the time the operation completes.
C17_PointerCleared ==
    [][\A s \in Sessions :
        (/\ pc[s] = "release" /\ pc'[s] = "done"
         /\ result[s] = "ok"
         /\ Relinquishes(req[s])
         /\ activePlanId[s] = req[s].id)
        => activePlanId'[s] = Null]_vars

\* the ids of a list of steps are 1, 2, ... in list order
Numbered(steps) == \A i \in 1..Len(steps) : steps[i].id = i

\* C18: in every state of a record built by create, add-step and
\* complete-step the step ids are pairwise distinct and increase in list
\* order: they are 1..N after a create with N texts, and each add-step appends
\* one step whose id is one more than the last, so that they are 1..N+k after
\* k of them; complete-step leaves the ids alone.
C18_StepIdsNumbered ==
    /\ [](\A id \in PlanIds : files[id] # NoFile => Numbered(files[id].steps))
    /\ [][\A s \in Sessions :
            /\ (pc[s] = "idle" /\ Steps(s) /\ req'[s].via = "tool"
                /\ req'[s].action = "create" /\ pc'[s] = "open")
               => /\ Len(existing'[s].steps) = Len(req'[s].steps)
                  /\ Numbered(existing'[s].steps)
            /\ (pc[s] = "read" /\ pc'[s] = "write" /\ req[s].action = "add-step")
               => LET old == files[req[s].id].steps
                      new == existing'[s].steps
                  IN  /\ Len(new) = Len(old) + 1
                      /\ SubSeq(new, 1, Len(old)) = old
                      /\ new[Len(new)].id = Len(old) + 1
                      /\ new[Len(new)].text = req[s].step_text
            /\ (pc[s] = "read" /\ pc'[s] = "write" /\ req[s].action = "complete-step")
               => LET old == files[req[s].id].steps
                      new == existing'[s].steps
                  IN  /\ Len(new) = Len(old)
                      /\ \A i \in 1..Len(old) : new[i].id = old[i].id]_vars

\* a record with as many steps as the bound allows, the first of them
\* completed, when an add-step on it has returned
C18_Witness ==
    \E id \in PlanIds :
        /\ files[id] # NoFile
        /\ Len(files[id].steps) = MaxSteps
        /\ files[id].steps[1].done
        /\ \E s \in Sessions :
              /\ pc[s] = "done" /\ req[s].action = "add-step" /\ result[s] = "ok"
              /\ req[s].id = id

\* the tool's create of session s
ToolCreate(s) == req[s].via = "tool" /\ req[s].action = "create"

\* C19: no create returns an id that an existing record already has, and no
\* create overwrites an existing record, in any interleaving of the sessions.
C19_CreateNeverOverwrites ==
    [][\A s \in Sessions :
        (pc[s] = "write" /\ Steps(s) /\ ToolCreate(s))
            => files[req[s].id] = NoFile]_vars

\* C20 as stated: the record a successful create writes has status draft.
C20_CreatedAsDraft ==
    [][\A s \in Sessions :
        (pc[s] = "write" /\ Steps(s) /\ ToolCreate(s))
            => files'[req[s].id].status = "draft"]_vars

\* C20: a successful create with a non-empty title writes exactly one record
\* file, that of the id it allocated: its status is the request's, or draft
\* when the request has none, its assigned_to_session is absent and its steps
\* are the supplied texts in order with ids 1..N and done = false; a create
\* without a title returns an error and writes nothing.
C20_CreateWritesRecord ==
    [][\A s \in Sessions :
        /\ (pc[s] = "idle" /\ Steps(s) /\ req'[s].via = "tool"
            /\ req'[s].action = "create")
           => IF req'[s].title \in {Undefined, ""}
              THEN /\ pc'[s] = "done" /\ result'[s] = "title required"
                   /\ files' = files /\ locks' = locks
              ELSE \/ pc'[s] = "done" /\ result'[s] = "threw" /\ files' = files
                   \/ /\ pc'[s] = "open"
                      /\ files' = files
                      /\ files[req'[s].id] = NoFile
                      /\ LET plan == existing'[s]
                             texts == req'[s].steps
                         IN  /\ plan.id = req'[s].id
                             /\ plan.title = req'[s].title
                             /\ plan.status = IF req'[s].status = Undefined
                                              THEN "draft" ELSE req'[s].status
                             /\ plan.assigned_to_session = Undefined
                             /\ Len(plan.steps) = Len(texts)
                             /\ \A i \in 1..Len(texts) :
                                   plan.steps[i] = [id |-> i, text |-> texts[i],
                                                    done |-> FALSE]
        /\ (pc[s] = "write" /\ Steps(s) /\ ToolCreate(s))
           => /\ files' = [files EXCEPT ![req[s].id] = existing[s]]
              /\ result'[s] = "ok"]_vars

\* a create that was given a status and as many steps as the bound allows
\* has written its record and returned
C20_Witness ==
    \E s \in Sessions :
        /\ pc[s] = "done" /\ ToolCreate(s) /\ result[s] = "ok"
        /\ req[s].status = "completed"
        /\ Len(req[s].steps) = MaxSteps
        /\ files[req[s].id] = existing[s]

\* the records the sweep of a process that read the clock at nowMs must
\* delete: completed or archived, with a created_at that is a timestamp
\* earlier than nowMs - gcDays days
Outdated(plan, nowMs, gcDays) ==
    /\ plan.status \in {"completed", "archived"}
    /\ plan.created_at \notin {NoDate, BadDate}
    /\ plan.created_at < nowMs - gcDays * 24 * 60 * 60

Sweeping(s) == pc[s] = "gc"

\* C21: a sweep with gc enabled deletes exactly the records whose status is
\* completed or archived and whose created_at parses to a time earlier than
\* now - gcDays days; it keeps every draft or active record whatever its age,
\* every record with a missing or unparseable created_at and every terminal
\* record younger than the window; with gc disabled it deletes nothing.
C21_SweepDeletesOutdated ==
    /\ [](\A s \in Sessions : Sweeping(s) =>
            \A id \in PlanIds :
                \* what it is about to delete is outdated (or gone already)
                /\ gcTask[s][id] = "unlink" =>
                       /\ req[s].gc
                       /\ files[id] # NoFile => Outdated(files[id], now[s], req[s].gcDays)
                \* with gc disabled it has nothing to do
                /\ ~req[s].gc => gcTask[s][id] = "none"
                \* when it is through, no outdated record is left
                /\ (req[s].gc /\ \A i \in PlanIds : gcTask[s][i] = "none")
                       => (files[id] # NoFile =>
                              ~Outdated(files[id], now[s], req[s].gcDays)))
    /\ [][\A id \in PlanIds :
            Changes(id) =>
                /\ files'[id] = NoFile
                /\ \E s \in Sessions :
                      /\ Sweeping(s) /\ req[s].gc /\ gcTask[s][id] = "unlink"
                      /\ gcTask'[s][id] = "none"
                      /\ Outdated(files[id], now[s], req[s].gcDays)]_vars

\* a sweep with gcDays = 30 is through and has kept a completed record that
\* was created exactly 30 days before, at the cutoff, while a sweep with
\* gcDays = 0 has read the same record and is about to delete it
C21_Witness ==
    \E s, t \in Sessions, id \in PlanIds :
        /\ Sweeping(s) /\ req[s].gc /\ req[s].gcDays = 30
        /\ \A i \in PlanIds : gcTask[s][i] = "none"
        /\ files[id] # NoFile /\ files[id].status = "completed"
        /\ files[id].created_at = now[s] - 30 * 24 * 60 * 60
        /\ Sweeping(t) /\ req[t].gcDays = 0 /\ gcTask[t][id] = "unlink"

\* a turn of session s has started and its note is another than the last one
NewNote(s) == note'[s] # note[s]

\* the not-done steps of a record, in list order, as the note lists them
RECURSIVE Remaining(_)
Remaining(steps) ==
    IF steps = <<>> THEN <<>>
    ELSE IF Head(steps).done THEN Remaining(Tail(steps))
         ELSE <<<<Head(steps).id, Head(steps).text>>>> \o Remaining(Tail(steps))

\* the note that tells of the active plan of session s, from the record on
\* disk now
NoteOfActivePlan(s) ==
    LET plan == files[activePlanId[s]]
    IN  [customType |-> "plan-execution-context", id |-> activePlanId[s],
         complete |-> Remaining(plan.steps) = <<>>, lines |-> Remaining(plan.steps)]

\* C22 as stated: at the start of every turn in which an active plan is set,
\* the note injected lists the not-done steps of the plan's record on disk, or
\* says that all are done.
C22_NoteWheneverActive ==
    [][\A s \in Sessions :
        (NewNote(s) /\ activePlanId[s] # Null)
        => /\ files[activePlanId[s]] # NoFile
           /\ note'[s] = NoteOfActivePlan(s)]_vars

\* C22: at the start of a turn in which planning mode is off, an active plan
\* is set and its record is on disk, the note injected lists exactly the
\* not-done steps of that record as it is now, in step order, or says that all
\* are done; in planning mode the note is the planning-mode note, whatever the
\* active plan, and when the record is gone (or no plan is active) no note is
\* injected.
C22_NoteOfTurn ==
    [][\A s \in Sessions :
        NewNote(s) =>
            note'[s] =
                IF planningModeEnabled[s] THEN [customType |-> "plan-mode-context"]
                ELSE IF activePlanId[s] = Null THEN [customType |-> "none"]
                ELSE IF files[activePlanId[s]] = NoFile THEN [customType |-> "none"]
                ELSE NoteOfActivePlan(s)]_vars

\* the note of a turn lists the one step that is left of a plan another
\* session has completed a step of
C22_Witness ==
    \E s \in Sessions :
        /\ activePlanId[s] # Null /\ ~planningModeEnabled[s]
        /\ files[activePlanId[s]] # NoFile
        /\ Len(files[activePlanId[s]].steps) = 2
        /\ files[activePlanId[s]].steps[1].done
        /\ ~files[activePlanId[s]].steps[2].done
        /\ note[s] = NoteOfActivePlan(s)
        /\ note[s].lines = <<<<2, files[activePlanId[s]].steps[2].text>>>>
        /\ \E o \in Sessions \ {s} :
              /\ pc[o] = "done" /\ req[o].action = "complete-step" /\ result[o] = "ok"

\* an execute of session s, by the tool or by the menu, that has succeeded
\* and is about to return
ExecuteSucceeds(s) ==
    pc[s] = "release" /\ pc'[s] = "done" /\ req[s].action = "execute" /\ result[s] = "ok"

\* C23: after any sequence of /plan on, /plan off, toggle shortcuts, session
\* starts with the plan flag and plan executions (tool or menu), the permitted
\* tool set is the read-only set (read, bash, grep, find, ls) whenever planning
\* mode is enabled, and it is the full set (read, bash, edit, write) once
\* planning mode has been disabled by a toggle or an execute, for as long as
\* the process runs with planning mode off.
C23_ToolsFollowMode ==
    /\ [](\A s \in Sessions :
            /\ planningModeEnabled[s] => activeTools[s] = "read,bash,grep,find,ls"
            /\ ~planningModeEnabled[s] => activeTools[s] \in {"read,bash,edit,write", HostTools})
    /\ [][\A s \in Sessions :
            /\ (planningModeEnabled[s] /\ ~planningModeEnabled'[s] /\ pc'[s] # "off")
                   => activeTools'[s] = "read,bash,edit,write"
            /\ ExecuteSucceeds(s)
                   => ~planningModeEnabled'[s] /\ activeTools'[s] = "read,bash,edit,write"
            /\ (activeTools[s] = "read,bash,edit,write" /\ ~planningModeEnabled'[s]
                /\ pc'[s] # "off")
                   => activeTools'[s] = "read,bash,edit,write"]_vars

\* a process in planning mode, with the read-only tools, has executed a plan
\* through the menu and is about to leave planning mode
C23_Witness ==
    \E s \in Sessions :
        /\ pc[s] = "release" /\ req[s].via = "menu" /\ req[s].action = "execute"
        /\ result[s] = "ok"
        /\ planningModeEnabled[s] /\ activeTools[s] = PLAN_MODE_TOOLS

\* a tool_call event of session s has been answered, and the event or the
\* answer is another than the last one
NewCall(s) == toolCall'[s] # toolCall[s]

\* C24: a bash tool invocation is rejected if and only if planning mode is
\* enabled at the time of the call and the command matches at least one
\* destructive pattern; a command that matches a safe prefix and a destructive
\* pattern is rejected, and no invocation is rejected while planning mode is
\* off (after an execute in particular).
C24_DestructiveBashRejected ==
    [][\A s \in Sessions :
        NewCall(s) =>
            /\ toolCall'[s].toolName = "bash"
                  => (toolCall'[s].block
                        <=> (planningModeEnabled[s]
                             /\ DESTRUCTIVE_PATTERNS(toolCall'[s].command)))
            /\ ~planningModeEnabled[s] => ~toolCall'[s].block]_vars

\* in planning mode a command with a safe prefix and a redirection has been
\* rejected
C24_Witness ==
    \E s \in Sessions :
        /\ planningModeEnabled[s]
        /\ toolCall[s].toolName = "bash"
        /\ toolCall[s].command = <<"cat", "f", ">", "g">>
        /\ SAFE_COMMANDS(toolCall[s].command)
        /\ toolCall[s].block

\* what an operation ends with when the user declined the steal prompt or
\* the delete prompt
Declined == {"remains", "declined"}

\* C25: declining a confirmation (the steal-lock prompt or the delete prompt)
\* aborts the pending operation with no side effect: no record file is written
\* or deleted, no lock file is created or deleted, and the active-plan pointer,
\* planning mode and the permitted tool set are unchanged; for every operation
\* that can raise the prompt, the menu's execute included.
C25_DeclineHasNoEffect ==
    [][\A s \in Sessions :
        (pc[s] # "done" /\ pc'[s] = "done" /\ result'[s] \in Declined)
        => /\ files' = files
           /\ locks' = locks
           /\ activePlanId'[s] = activePlanId[s]
           /\ planningModeEnabled'[s] = planningModeEnabled[s]
           /\ activeTools'[s] = activeTools[s]]_vars

\* a record the round trip is claimed for: a valid status, and an
\* assigned_to_session that is absent or has a character that is no blank
ValidPlan(p) ==
    /\ p.status \in {<<st>> : st \in Statuses}
    /\ \A i \in 1..Len(p.assigned_to_session) :
          \E j \in 1..Len(p.assigned_to_session[i]) :
              p.assigned_to_session[i][j] \notin {" ", "\n", "\r"}

\* a body without its leading line feeds and its trailing whitespace
RECURSIVE BodyCore(_)
BodyCore(b) ==
    IF b = <<>> THEN b
    ELSE IF Head(b) = "\n" THEN BodyCore(Tail(b))
    ELSE IF b[Len(b)] \in {" ", "\n", "\r"} THEN BodyCore(SubSeq(b, 1, Len(b) - 1))
    ELSE b

\* session s writes the record it holds and reads it back
RoundTrips(s) == pc[s] = "idle" /\ pc'[s] = "done" /\ existing[s] # NoFile

\* C26: for every plan p with a valid status, steps of the required shape and
\* a non-blank or absent assigned_to_session, parse(serialize(p), p.id) equals
\* p in id, title, status, created_at, assigned_to_session and steps, and in
\* body up to leading blank lines and trailing whitespace; and so
\* serialize(parse(serialize(p), p.id)) = serialize(p).
C26_RoundTrip ==
    [][\A s \in Sessions, id \in PlanIds :
        (RoundTrips(s) /\ existing[s].id = <<id>> /\ ValidPlan(existing[s]))
        => LET p == existing[s]
               q == files'[id]
           IN  /\ q.id = p.id
               /\ q.title = p.title
               /\ q.status = p.status
               /\ q.created_at = p.created_at
               /\ q.assigned_to_session = p.assigned_to_session
               /\ q.steps = p.steps
               /\ BodyCore(q.body) = BodyCore(p.body)
               /\ serializePlan(q) = serializePlan(p)]_vars

\* a record has made the trip whose title has a quote and braces, whose
\* steps have quotes and a backslash in their texts, and whose body has braces
\* and blank lines in front and whitespace behind
C26_Witness ==
    \E s \in Sessions, id \in PlanIds :
        /\ pc[s] = "done" /\ existing[s] # NoFile /\ files[id] # NoFile
        /\ ValidPlan(existing[s])
        /\ existing[s].title = <<"x", "}", "\"", "{">>
        /\ existing[s].assigned_to_session = <<<<"s1">>>>
        /\ Len(existing[s].steps) = 2
        /\ existing[s].body = <<"\n", "\n", "x", " ", "\n">>
        /\ files[id].title = existing[s].title
        /\ files[id].body = <<"x", "\n">>

\* ---------------------------------------------------------------- C27
\* the step at which the delete of id by session s returns its success
DeleteSucceeds(s, id) ==
    /\ pc[s] = "release" /\ pc'[s] = "done"
    /\ req[s].via = "tool" /\ req[s].action = "delete" /\ req[s].id = id
    /\ result'[s] = "ok"

\* the delete of id by session s has returned its success, and no call but
\* gets has started since
Deleted(s, id) ==
    /\ pc[s] = "done" /\ req[s].via = "tool" /\ req[s].action = "delete"
    /\ req[s].id = id /\ result[s] = "ok"

\* session t calls get on id, and the call returns
Gets(t, id) ==
    /\ pc[t] = "idle" /\ pc'[t] # "idle"
    /\ req'[t].via = "tool" /\ req'[t].action = "get" /\ req'[t].param = <<id>>

\* C27: after a successful delete of plan id the store has neither the record
\* file nor the lock file of id, a following get of id returns not found, and
\* the active-plan pointer of the deleting process does not reference id.
C27_DeleteRemoves ==
    [][\A s \in Sessions, id \in PlanIds :
        /\ DeleteSucceeds(s, id)
             => /\ files'[id] = NoFile
                /\ locks'[id] = NoLock
                /\ activePlanId'[s] # id
        /\ Deleted(s, id)
             => /\ files[id] = NoFile
                /\ locks[id] = NoLock
                /\ activePlanId[s] # id
                /\ \A t \in Sessions :
                      Gets(t, id) => pc'[t] = "done" /\ result'[t] = "not found"]_vars

\* a process whose pointer was on the plan has deleted it, and a get of the
\* other process has then answered not found
C27_Witness ==
    \E s \in Sessions, t \in Sessions, id \in PlanIds :
        /\ s # t
        /\ Deleted(s, id)
        /\ activePlanId[s] = Null
        /\ planningModeEnabled[s] = FALSE /\ activeTools[s] = NORMAL_MODE_TOOLS
        /\ pc[t] = "done" /\ req[t].via = "tool" /\ req[t].action = "get"
        /\ req[t].param = <<id>> /\ result[t] = "not found"

\* ---------------------------------------------------------------- C28
\* session s is inside a complete-step call of the tool
CompletingStep(s) ==
    pc[s] \notin {"idle", "done"} /\ req[s].via = "tool" /\ req[s].action = "complete-step"

\* the record with step k done and nothing else different
WithStepDone(plan, k) ==
    [plan EXCEPT !.steps = [i \in 1..Len(plan.steps) |->
        IF plan.steps[i].id = k THEN [plan.steps[i] EXCEPT !.done = TRUE]
        ELSE plan.steps[i]]]

\* C28: a successful complete-step with step_id k sets done on the step whose
\* id is k and leaves every other step, the title, the status, the body,
\* created_at and the assignment as they were; when no step has id k the call
\* returns a step-not-found error and writes nothing.
C28_CompleteStepFrame ==
    [][\A s \in Sessions :
        (CompletingStep(s) /\ pc'[s] # pc[s])
        => LET id == req[s].id
               k == req[s].step_id
           IN  IF pc[s] = "write"
               THEN /\ HasStep(files[id].steps, k)
                    /\ files' = [files EXCEPT ![id] = WithStepDone(files[id], k)]
                    /\ result'[s] = "ok"
               ELSE /\ files' = files
                    /\ IF pc[s] = "read" /\ files[id] # NoFile
                       THEN IF HasStep(files[id].steps, k)
                            THEN pc'[s] = "write"
                            ELSE pc'[s] = "release" /\ result'[s] = "step not found"
                       ELSE result'[s] = "step not found"
                                => result[s] = "step not found"]_vars

\* step 2 of an active, assigned plan of two steps has been completed and
\* step 1 has not
C28_Witness ==
    \E s \in Sessions, id \in PlanIds :
        /\ pc[s] = "done" /\ req[s].via = "tool" /\ req[s].action = "complete-step"
        /\ req[s].id = id /\ req[s].step_id = 2 /\ result[s] = "ok"
        /\ files[id] # NoFile
        /\ files[id].status = "active" /\ files[id].assigned_to_session # Undefined
        /\ Len(files[id].steps) = 2
        /\ ~files[id].steps[1].done /\ files[id].steps[2].done

\* a complete-step has answered that the plan has no such step
C28_NotFoundWitness ==
    \E s \in Sessions :
        /\ pc[s] = "done" /\ req[s].via = "tool" /\ req[s].action = "complete-step"
        /\ result[s] = "step not found"

\* ---------------------------------------------------------------- C29
\* session s is inside an update call of the tool
Updating(s) ==
    pc[s] \notin {"idle", "done"} /\ req[s].via = "tool" /\ req[s].action = "update"

\* C29: a successful update changes only those of title, status and body that
\* the request supplies; the others of the three, and id, created_at,
\* assigned_to_session and steps, are after the update what they were before.
C29_UpdateFrame ==
    [][\A s \in Sessions :
        (Updating(s) /\ pc'[s] # pc[s])
        => IF pc[s] = "write"
           THEN LET r == req[s]
                    e == files[r.id]
                    f == files'[r.id]
                IN  /\ result'[s] = "ok"
                    /\ f # NoFile
                    /\ f.title = (IF r.title = Undefined THEN e.title ELSE r.title)
                    /\ f.status = (IF r.status = Undefined THEN e.status ELSE r.status)
                    /\ f.body = (IF r.body = Undefined THEN e.body ELSE r.body)
                    /\ f.id = e.id
                    /\ f.created_at = e.created_at
                    /\ f.assigned_to_session = e.assigned_to_session
                    /\ f.steps = e.steps
                    /\ \A o \in PlanIds \ {r.id} : files'[o] = files[o]
           ELSE /\ files' = files
                /\ result'[s] = "ok" => result[s] = "ok"]_vars

\* an update that supplied only a title has returned, on a plan that is still
\* active, assigned, with its steps, and has the title supplied
C29_Witness ==
    \E s \in Sessions, id \in PlanIds :
        /\ pc[s] = "done" /\ req[s].via = "tool" /\ req[s].action = "update"
        /\ req[s].id = id /\ result[s] = "ok"
        /\ req[s].title = "" /\ req[s].status = Undefined /\ req[s].body = Undefined
        /\ files[id] # NoFile
        /\ files[id].title = "" /\ files[id].status = "active"
        /\ files[id].assigned_to_session # Undefined
        /\ files[id].body = "B1" /\ Len(files[id].steps) = MaxSteps

\* ---------------------------------------------------------------- C30
\* C30: the id and the created_at of a record are in every later state what
\* they were when it was created, whatever the tool and the menu do to it for
\* whatever process, until the record is deleted.
C30_IdAndCreatedAtKept ==
    [][\A id \in PlanIds :
        (files[id] # NoFile /\ files'[id] # NoFile)
        => /\ files[id].id = id
           /\ files'[id].id = id
           /\ files'[id].created_at = files[id].created_at]_vars

\* a record made after time has passed has been executed, has had a step
\* completed and has been completed from the menu, and still has the time of
\* its creation
C30_Witness ==
    \E s \in Sessions, id \in PlanIds :
        /\ pc[s] = "done" /\ req[s].via = "menu" /\ req[s].action = "complete"
        /\ req[s].id = id /\ result[s] = "ok"
        /\ files[id] # NoFile
        /\ files[id].id = id
        /\ files[id].created_at \in TickMs
        /\ files[id].status = "completed"
        /\ \E i \in 1..Len(files[id].steps) : files[id].steps[i].done

\* ---------------------------------------------------------------- listing
\* the PlanFrontMatter listPlans pushes for one entry: the record less its body
FrontMatter(r) ==
    [id |-> r.id, title |-> r.title, status |-> r.status,
     created_at |-> r.created_at, assigned_to_session |-> r.assigned_to_session,
     steps |-> r.steps]

\* Boolean(a.assigned_to_session)
Boolean(x) == x \notin {Undefined, ""}

\* x.localeCompare(y) on the created_at texts (a.created_at || ""): the empty
\* text comes before every other, timestamps of toISOString compare as their
\* times do, and a text that is no timestamp ("soon") comes after the digits
localeCompare(x, y) ==
    IF x = y THEN 0
    ELSE IF x = NoDate THEN -1
    ELSE IF y = NoDate THEN 1
    ELSE IF x = BadDate THEN 1
    ELSE IF y = BadDate THEN -1
    ELSE IF x < y THEN -1 ELSE 1

\* mutant of comparePlans: the oldest record first
comparePlansOldestFirst(a, b) ==
    LET aCompleted == isPlanCompleted(a.status)
        bCompleted == isPlanCompleted(b.status)
        aAssigned == ~aCompleted /\ Boolean(a.assigned_to_session)
        bAssigned == ~bCompleted /\ Boolean(b.assigned_to_session)
    IN  IF aCompleted # bCompleted THEN (IF aCompleted THEN 1 ELSE -1)
        ELSE IF a.status = "active" /\ b.status # "active" THEN -1
        ELSE IF b.status = "active" /\ a.status # "active" THEN 1
        ELSE IF aAssigned # bAssigned THEN (IF aAssigned THEN -1 ELSE 1)
        ELSE localeCompare(a.created_at, b.created_at)

\* the comparator sortPlans hands to Array.prototype.sort
comparePlans(a, b) ==
    LET aCompleted == isPlanCompleted(a.status)
        bCompleted == isPlanCompleted(b.status)
        aAssigned == ~aCompleted /\ Boolean(a.assigned_to_session)
        bAssigned == ~bCompleted /\ Boolean(b.assigned_to_session)
    IN  IF aCompleted # bCompleted THEN (IF aCompleted THEN 1 ELSE -1)
        ELSE IF a.status = "active" /\ b.status # "active" THEN -1
        ELSE IF b.status = "active" /\ a.status # "active" THEN 1
        ELSE IF aAssigned # bAssigned THEN (IF aAssigned THEN -1 ELSE 1)
        ELSE localeCompare(b.created_at, a.created_at)

\* one insertion of a stable sort: x goes before the first element that the
\* comparator puts after it
InsertPlan(sorted, x) ==
    LET later == {i \in 1..Len(sorted) : comparePlans(sorted[i], x) > 0}
        at == IF later = {} THEN Len(sorted) + 1
              ELSE CHOOSE i \in later : \A j \in later : i <= j
    IN  SubSeq(sorted, 1, at - 1) \o <<x>> \o SubSeq(sorted, at, Len(sorted))

\* [...plans].sort(comparator): Array.prototype.sort is stable
RECURSIVE sortPlans(_)
sortPlans(plans) ==
    IF plans = <<>> THEN <<>>
    ELSE InsertPlan(sortPlans(SubSeq(plans, 1, Len(plans) - 1)), plans[Len(plans)])

\* the orders in which readdir can give the record files of the directory
ScanOrders ==
    LET present == {id \in DOMAIN files : files[id] # NoFile}
    IN  {o \in [1..Cardinality(present) -> present] :
           \A i, j \in 1..Cardinality(present) : o[i] = o[j] => i = j}

\* listPlans over one scan order: a record per entry, then the sort
listPlans(order) ==
    sortPlans([i \in 1..Len(order) |-> FrontMatter(files[order[i]])])

\* the tool's list action: await listPlans(plansDir), returned in details.plans
ListPlans(s) ==
    /\ pc[s] = "idle"
    /\ \E order \in ScanOrders :
          result' = [result EXCEPT ![s] = listPlans(order)]
    /\ req' = [req EXCEPT ![s] = Request("tool", "list", Undefined)]
    /\ pc' = [pc EXCEPT ![s] = "done"]
    /\ UNCHANGED <<files, locks, clock, ticks, hasUI, attempt, now, existing, gcTask,
                   planningModeEnabled, activePlanId, activeTools, note, toolCall>>

\* The listing's choice: a directory of up to three records of any status (one
\* that the tool does not write among them), assigned or not, made at one of
\* two times or carrying no created_at, listed by either process.
ListIds == {"a1", "b2", "c3"}
ListStatuses == Statuses \cup {"paused"}
ListDates == {NoDate, 1, 2}

ListRecords(id) ==
    {[id |-> id, title |-> "T1", status |-> st, created_at |-> c,
      assigned_to_session |-> a, steps |-> <<>>, body |-> ""] :
       st \in ListStatuses, c \in ListDates, a \in {Undefined, "s1"}}

InitList ==
    /\ files \in {f \in [ListIds -> UNION {ListRecords(id) : id \in ListIds} \cup {NoFile}] :
                    \A id \in ListIds : f[id] # NoFile => f[id].id = id}
    /\ locks = [id \in ListIds |-> NoLock]
    /\ clock = 2
    /\ ticks = 0
    /\ hasUI = [s \in Sessions |-> s \in Interactive]
    /\ pc = [s \in Sessions |-> "idle"]
    /\ req = [s \in Sessions |-> NoReq]
    /\ attempt = [s \in Sessions |-> 0]
    /\ now = [s \in Sessions |-> 0]
    /\ existing = [s \in Sessions |-> NoFile]
    /\ result = [s \in Sessions |-> ""]
    /\ gcTask = [s \in Sessions |-> [id \in ListIds |-> "none"]]
    /\ planningModeEnabled = [s \in Sessions |-> FALSE]
    /\ activePlanId = [s \in Sessions |-> Null]
    /\ activeTools = [s \in Sessions |-> HostTools]
    /\ note = [s \in Sessions |-> NoNote]
    /\ toolCall = [s \in Sessions |-> NoCall]

NextList == \E s \in Sessions : (OneAtATime(s) /\ ListPlans(s)) \/ Return(s)

SpecList == InitList /\ [][NextList]_vars

\* ---------------------------------------------------------------- C31
Listed(s) == pc[s] = "done" /\ req[s].via = "tool" /\ req[s].action = "list"

\* the list holds each readable record of the store once and nothing else
PermutationOfStore(l) ==
    /\ Len(l) = Cardinality({id \in DOMAIN files : files[id] # NoFile})
    /\ \A id \in DOMAIN files :
          files[id] # NoFile => \E i \in 1..Len(l) : l[i] = FrontMatter(files[id])

\* the composite key of the ordering, one clause per level
OrderedByKey(l) ==
    \A i, j \in 1..Len(l) :
        i < j =>
          LET a == l[i]
              b == l[j]
              aTerminal == a.status \in {"completed", "archived"}
              bTerminal == b.status \in {"completed", "archived"}
              aActive == a.status = "active"
              bActive == b.status = "active"
              aAssigned == a.assigned_to_session # Undefined
              bAssigned == b.assigned_to_session # Undefined
          IN  /\ ~(aTerminal /\ ~bTerminal)
              /\ ~(~aActive /\ bActive)
              /\ (~aTerminal /\ ~bTerminal /\ aActive = bActive)
                    => ~(~aAssigned /\ bAssigned)
              /\ (aTerminal = bTerminal /\ aActive = bActive
                    /\ (aTerminal \/ aAssigned = bAssigned))
                    => localeCompare(a.created_at, b.created_at) >= 0

\* the comparator is a total preorder on the records listed
TotalPreorder(l) ==
    \A i, j, k \in 1..Len(l) :
        /\ comparePlans(l[i], l[j]) = -comparePlans(l[j], l[i])
        /\ (comparePlans(l[i], l[j]) <= 0 /\ comparePlans(l[j], l[k]) <= 0)
              => comparePlans(l[i], l[k]) <= 0

\* two lists differ only where records tie in every level of the key
SameUpToTies(l, m) ==
    /\ Len(l) = Len(m)
    /\ \A i \in 1..Len(l) : comparePlans(l[i], m[i]) = 0 /\ comparePlans(m[i], l[i]) = 0

\* C31: what the list action returns holds every readable record of the store
\* exactly once, ordered by the composite key (non-terminal before completed
\* or archived, active before non-active, among the non-terminal the assigned
\* before the unassigned, then the newest created_at first); the comparator is
\* a total preorder, and another scan order of the directory gives the same
\* list except among records that tie in every level.
C31_ListSorted ==
    \A s \in Sessions :
        Listed(s) =>
            /\ PermutationOfStore(result[s])
            /\ OrderedByKey(result[s])
            /\ TotalPreorder(result[s])
            /\ \A order \in ScanOrders : SameUpToTies(result[s], listPlans(order))

\* three records are listed and the one of the first file name comes last:
\* a completed record, after an active one and after a draft
C31_Witness ==
    \E s \in Sessions :
        /\ Listed(s)
        /\ Len(result[s]) = 3
        /\ result[s][1].status = "active"
        /\ result[s][2].status = "draft" /\ result[s][2].created_at = 2
        /\ result[s][3].id = "a1" /\ result[s][3].status = "completed"

\* ------------------------------------------------------------ splitting
\* readPlanFile's splitFrontMatter(content) of the text session s has read,
\* with what findJsonObjectEnd gives on that text
SplitContent(s) ==
    /\ pc[s] = "idle"
    /\ existing[s] # NoFile
    /\ result' = [result EXCEPT ![s] =
            [endIndex |-> findJsonObjectEnd(existing[s].content),
             split |-> splitFrontMatter(existing[s].content)]]
    /\ pc' = [pc EXCEPT ![s] = "done"]
    /\ UNCHANGED <<files, locks, clock, ticks, hasUI, req, attempt, now, existing,
                   gcTask, planningModeEnabled, activePlanId, activeTools, note,
                   toolCall>>

\* The scanner's choice: every text of up to MaxContent characters over the
\* characters the scanner tells apart and one it does not, and the texts of a
\* file that does not open with a brace.
MaxContent == 6
ScanAlphabet == {"{", "}", QUOTE, BACKSLASH, "x"}

ScanContents ==
    UNION {{<<"{">> \o rest : rest \in [1..n -> ScanAlphabet]} : n \in 0..(MaxContent - 1)}
    \cup {<<>>, <<"x", "{", "}">>, <<LF, "{", "}">>}

InitSplit ==
    /\ files = [id \in PlanIds |-> NoFile]
    /\ locks = [id \in PlanIds |-> NoLock]
    /\ clock = 0
    /\ ticks = 0
    /\ hasUI = [s \in Sessions |-> s \in Interactive]
    /\ pc = [s \in Sessions |-> "idle"]
    /\ req = [s \in Sessions |-> NoReq]
    /\ attempt = [s \in Sessions |-> 0]
    /\ now = [s \in Sessions |-> 0]
    /\ existing \in {[s \in Sessions |-> IF s \in Interactive THEN [content |-> c] ELSE NoFile] :
                       c \in ScanContents}
    /\ result = [s \in Sessions |-> ""]
    /\ gcTask = [s \in Sessions |-> [id \in PlanIds |-> "none"]]
    /\ planningModeEnabled = [s \in Sessions |-> FALSE]
    /\ activePlanId = [s \in Sessions |-> Null]
    /\ activeTools = [s \in Sessions |-> HostTools]
    /\ note = [s \in Sessions |-> NoNote]
    /\ toolCall = [s \in Sessions |-> NoCall]

NextSplit == \E s \in Sessions : SplitContent(s)

SpecSplit == InitSplit /\ [][NextSplit]_vars

\* ---------------------------------------------------------------- C32
\* the backslashes that stand in a row right before position i
RECURSIVE BackslashesBefore(_, _)
BackslashesBefore(content, i) ==
    IF i > 1 /\ content[i - 1] = BACKSLASH THEN 1 + BackslashesBefore(content, i - 1)
    ELSE 0

\* the quotes before position i that open or close a string: a quote outside
\* a string opens one, a quote inside closes it unless an odd number of
\* backslashes stands before it
RECURSIVE StringQuotesBefore(_, _)
StringQuotesBefore(content, i) ==
    IF i <= 1 THEN 0
    ELSE LET before == StringQuotesBefore(content, i - 1)
             delimits == /\ content[i - 1] = QUOTE
                         /\ \/ before % 2 = 0
                            \/ BackslashesBefore(content, i - 1) % 2 = 0
         IN  IF delimits THEN before + 1 ELSE before

OutsideString(content, i) == StringQuotesBefore(content, i) % 2 = 0

\* the opening braces less the closing braces, outside strings, up to i
RECURSIVE BraceBalance(_, _)
BraceBalance(content, i) ==
    IF i = 0 THEN 0
    ELSE BraceBalance(content, i - 1)
         + (IF content[i] = "{" /\ OutsideString(content, i) THEN 1
            ELSE IF content[i] = "}" /\ OutsideString(content, i) THEN -1
            ELSE 0)

\* the position of the brace that closes the first one, or -1
ClosingBrace(content) ==
    LET closing == {i \in 1..Len(content) :
                      /\ content[i] = "}"
                      /\ OutsideString(content, i)
                      /\ BraceBalance(content, i) = 0}
    IN  IF closing = {} THEN -1 ELSE CHOOSE i \in closing : \A j \in closing : i <= j

Split(s) == pc[s] = "done" /\ existing[s] # NoFile /\ existing[s].content # <<>>
            /\ Head(existing[s].content) = "{"

\* C32: on every text that starts with an opening brace the scanner returns
\* the position (counted from 1 here, from 0 in the code) of the closing brace
\* that closes the first opening brace, counting only the braces outside
\* double-quoted strings, where a quote after a backslash does not end a
\* string; it returns -1 when no brace closes it, and the split then gives
\* the whole text as the body and an empty header.
C32_ScannerFindsClosingBrace ==
    \A s \in Sessions :
        Split(s) =>
            /\ result[s].endIndex = ClosingBrace(existing[s].content)
            /\ result[s].endIndex = -1
                  => /\ result[s].split.frontMatter = <<>>
                     /\ result[s].split.body = existing[s].content
            /\ result[s].endIndex # -1
                  => result[s].split.frontMatter
                        = SubSeq(existing[s].content, 1, result[s].endIndex)

\* a text whose string holds an escaped quote: the scanner passes it, ends the
\* string at the next quote and returns the brace after the string
C32_Witness ==
    \E s \in Sessions :
        /\ Split(s)
        /\ existing[s].content = <<"{", QUOTE, BACKSLASH, QUOTE, QUOTE, "}">>
        /\ result[s].endIndex = 6

\* a text whose only closing brace stands in a string that is never closed
C32_UnclosedWitness ==
    \E s \in Sessions :
        /\ Split(s)
        /\ existing[s].content = <<"{", QUOTE, BACKSLASH, QUOTE, "}">>
        /\ result[s].endIndex = -1
        /\ result[s].split.body = existing[s].content

\* a text whose brace is closed after a string that holds a brace
C32_ClosedWitness ==
    \E s \in Sessions :
        /\ Split(s)
        /\ existing[s].content = <<"{", QUOTE, "}", QUOTE, "}", "x">>
        /\ result[s].endIndex = 5
        /\ result[s].split.body = <<"x">>

\* ---------------------------------------------------------------- C33
\* the sweep of session s unlinks the record file of id in this step
SweepDeletes(s, id) ==
    /\ pc[s] = "gc"
    /\ gcTask[s][id] = "unlink" /\ gcTask'[s][id] = "none"
    /\ files[id] # NoFile /\ files'[id] = NoFile

\* C33: the sweep never deletes a record whose status on disk is draft or
\* active at the moment of the deletion, whatever other sessions do between
\* the sweep's read of the record and its unlink.
C33_SweepSparesLivePlans ==
    [][\A s \in Sessions, id \in PlanIds :
        SweepDeletes(s, id) => files[id].status \notin {"draft", "active"}]_vars

\* ---------------------------------------------------------------- C34
\* the release callback of session s removes a lock file in this step
ReleaseUnlinks(s) ==
    /\ pc[s] = "release" /\ pc'[s] # "release"
    /\ locks[req[s].id] # NoLock /\ locks'[req[s].id] = NoLock

\* C34: the release callback removes only the lock file that the same acquire
\* created: a session whose lock was stolen does not delete the stealer's
\* lock when it releases.
C34_ReleaseRemovesOwnLock ==
    [][\A s \in Sessions :
        ReleaseUnlinks(s) => locks[req[s].id].session = s]_vars

\* ---------------------------------------------------------------- C37
\* acquireLock of session s returns an error in this step
AcquireFails(s) ==
    /\ pc[s] \in {"open", "stat", "confirmed", "refused"}
    /\ pc'[s] = "done"

\* C37: whenever acquireLock returns an error, the call has left no lock file
\* of its own behind, also when it fails while writing the lock's contents
\* after the exclusive create succeeded.
C37_FailedAcquireLeavesNoLock ==
    [][\A s \in Sessions :
        AcquireFails(s)
        => ~(locks'[req[s].id] # NoLock /\ locks'[req[s].id].session = s)]_vars

\* ---------------------------------------------------------------- C35
\* C35: whenever the active-plan pointer of a session references a plan, the
\* record of that plan exists, its status is active and it is assigned to
\* that session, whatever operations this and other sessions have run.  The
\* states looked at are those between operations, when no session is inside
\* one.
C35_PointerReferencesOwnActivePlan ==
    (\A t \in Sessions : pc[t] = "idle")
    => \A s \in Sessions, id \in PlanIds :
          activePlanId[s] = id
          => /\ files[id] # NoFile
             /\ files[id].status = "active"
             /\ files[id].assigned_to_session = s

\* ---------------------------------------------------------------- C36
\* session s writes the record of an add-step or a complete-step in this step
StepWrite(s) ==
    /\ pc[s] = "write" /\ pc'[s] = "release"
    /\ req[s].via = "tool"
    /\ req[s].action \in {"add-step", "complete-step"}

\* C36: while no lock is older than the time to live and no sweep runs, no
\* successful add-step or complete-step is lost to a concurrent one: each is
\* applied to the record as the operations before it, in the order of the
\* lock, have left it, so what a step operation writes is its mutation of the
\* record that is on disk when it writes.
C36_NoLostStepMutation ==
    [][\A s \in Sessions :
        StepWrite(s)
        => /\ files[req[s].id] # NoFile
           /\ files'[req[s].id]
                 = CriticalSection(req[s], files[req[s].id], s).plan]_vars

\* ---------------------------------------------------------------- C38
\* the ids of the steps of a record that are done
DoneSteps(plan) == {plan.steps[i].id : i \in {j \in 1..Len(plan.steps) : plan.steps[j].done}}

\* an operation on an existing record (any but a create, which makes a new
\* one) writes the record of id in this step
RecordWrite(s, id) ==
    /\ pc[s] = "write" /\ pc'[s] = "release"
    /\ req[s].id = id /\ req[s].action # "create"
    /\ files[id] # NoFile /\ files'[id] # NoFile

\* C38: the done flag of a step only ever goes from false to true: no write
\* to a record, by any operation of any session in any interleaving, leaves a
\* step not done that was done in the record on disk before the write.
C38_DoneIsMonotonic ==
    [][\A s \in Sessions, id \in PlanIds :
        RecordWrite(s, id) => DoneSteps(files[id]) \subseteq DoneSteps(files'[id])]_vars

\* ----------------------------------------------------------- two plans
\* Executing one plan after another: the store holds two draft plans, and the
\* sessions execute them through the tool (with and without force) and the
\* menu, one operation at a time.
ExecuteRequests ==
    {[Request("tool", "execute", id) EXCEPT !.force = f] :
       id \in TwoPlanIds, f \in BOOLEAN}

InitExecute ==
    /\ files = [id \in TwoPlanIds |->
                  [id |-> id, title |-> "T1", status |-> "draft", created_at |-> 0,
                   assigned_to_session |-> Undefined, steps |-> <<>>, body |-> ""]]
    /\ locks = [id \in TwoPlanIds |-> NoLock]
    /\ clock = 0
    /\ ticks = 0
    /\ hasUI = [s \in Sessions |-> s \in Interactive]
    /\ pc = [s \in Sessions |-> "idle"]
    /\ req = [s \in Sessions |-> NoReq]
    /\ attempt = [s \in Sessions |-> 0]
    /\ now = [s \in Sessions |-> 0]
    /\ existing = [s \in Sessions |-> NoFile]
    /\ result = [s \in Sessions |-> ""]
    /\ gcTask = [s \in Sessions |-> [id \in PlanIds |-> "none"]]
    /\ planningModeEnabled = [s \in Sessions |-> FALSE]
    /\ activePlanId = [s \in Sessions |-> Null]
    /\ activeTools = [s \in Sessions |-> HostTools]
    /\ note = [s \in Sessions |-> NoNote]
    /\ toolCall = [s \in Sessions |-> NoCall]

NextExecute ==
    \E s \in Sessions :
        \/ OneAtATime(s) /\ \E r \in ExecuteRequests : StartTool(s, r)
        \/ OneAtATime(s) /\ \E id \in TwoPlanIds : StartMenu(s, "execute", id, TRUE)
        \/ AcquireOpen(s)
        \/ FnRead(s)
        \/ FnWrite(s)
        \/ Release(s)
        \/ Return(s)

SpecExecute == InitExecute /\ [][NextExecute]_vars

\* ---------------------------------------------------------------- C39
\* the plans that are active and assigned to session s
ActiveAssigned(s) ==
    {id \in DOMAIN files :
        /\ files[id] # NoFile
        /\ files[id].status = "active"
        /\ files[id].assigned_to_session = s}

\* C39: each session has at most one plan that is both active and assigned to
\* it: executing a second plan does not leave the plan executed before active
\* and assigned to the same session.
C39_OneActivePlanPerSession ==
    \A s \in Sessions : Cardinality(ActiveAssigned(s)) <= 1

\* ---------------------------------------------------------------- C40
\* a create of session s writes the record of id in this step
CreateWrites(s, id) ==
    /\ pc[s] = "write" /\ pc'[s] = "release"
    /\ req[s].via = "tool" /\ req[s].action = "create" /\ req[s].id = id

\* C40: once the record file of a plan is deleted, no operation that was in
\* progress writes it back: an id without a record has a record again only
\* through the write of a create.
C40_DeletedStaysDeleted ==
    [][\A id \in PlanIds :
        (files[id] = NoFile /\ files'[id] # NoFile)
        => \E s \in Sessions : CreateWrites(s, id)]_vars

====
